---- MODULE Spec2Model ----
(***************************************************************************)
(* A model of the fat-bits crate of MorizzG/fat-fs: the FAT table chain    *)
(* walk (fat.rs), the boot parameter block loader (bpb.rs), the cluster    *)
(* chain reader and writer (iter.rs, lib.rs) and the directory iterator    *)
(* with its long filename buffer (dir.rs).                                 *)
(*                                                                         *)
(* A u32 cluster number or FAT entry is a pair <<hi, lo>> of 16-bit halves *)
(* (value hi * 65536 + lo): the FAT32 markers 0xFFFFFFF6..0xFFFFFFFF are   *)
(* above the integers TLC computes with.                                   *)
(***************************************************************************)
EXTENDS Integers, Sequences, FiniteSets, TLC

VARIABLES
    fat,          \* FatFs.fat: [fat_type, max, next_sectors]
    cluster,      \* the argument of the Fat::get_next_cluster call under study
    next_result,  \* what that call returned
    boot,         \* the fields of the boot sector handed to Bpb::load
    bpb_result,   \* what Bpb::load returned
    disk,         \* the block backend: absolute byte offset -> byte
    stream,       \* the ClusterChainReader / ClusterChainWriter under study
    first,        \* the first cluster the stream was opened on
    rd_out,       \* the bytes the reads of the stream returned, in order
    wr_in,        \* the bytes the writes of the stream accepted, in order
    last_op,      \* the last stream operation: its argument, result and pre-state
    slots,        \* the 32-byte directory slots the DirIter's reader yields
    dir_iter,     \* the DirIter: reader position, long_filename_buf, status
    emitted,      \* the entries DirIter::next returned, in order
    fat_bytes,    \* the bytes of the FAT region of the disk, in chunks of one entry width
    wb_result,    \* what the last Fat::new, set_entry or write_to_disk call returned
    raw_slot,     \* the 32 bytes of a directory slot handed to DirEntry::load
    loaded_entry,    \* what DirEntry::load returned for them
    entry_view,   \* what name_string, is_dot, is_dotdot and is_hidden return for it
    stamp,        \* a date and a time of day: [day, month, year, seconds, minutes, hours]
    packed,       \* the Date and the Time built of them
    unpacked,     \* what the accessors of the Date and the Time return
    inode,        \* the Inode of an open file: [kind, size, first_cluster, read_only]
    entry_size,   \* the file_size field of the entry of that file in the directory of its parent
    reply         \* the last read or write request on it and the reply it got

vars == <<fat, cluster, next_result, boot, bpb_result, disk, stream, first,
          rd_out, wr_in, last_op, slots, dir_iter, emitted, fat_bytes, wb_result,
          raw_slot, loaded_entry, entry_view, stamp, packed, unpacked, inode, entry_size,
          reply>>

fat_vars == <<fat, cluster, next_result>>
bpb_vars == <<boot, bpb_result>>
chain_vars == <<disk, stream, first, rd_out, wr_in, last_op>>
dir_vars == <<slots, dir_iter, emitted>>
table_vars == <<fat_bytes, wb_result>>
entry_vars == <<raw_slot, loaded_entry, entry_view>>
time_vars == <<stamp, packed, unpacked>>
fuse_vars == <<inode, entry_size, reply>>
more_vars == <<table_vars, entry_vars, time_vars, fuse_vars>>

Idle == [kind |-> "idle"]

\* the parts of the state a specification does not use
FatIdle == fat = Idle /\ cluster = Idle /\ next_result = Idle
BpbIdle == boot = Idle /\ bpb_result = Idle
ChainIdle ==
    /\ disk = Idle /\ stream = Idle /\ first = Idle
    /\ rd_out = Idle /\ wr_in = Idle /\ last_op = Idle
DirIdle == slots = Idle /\ dir_iter = Idle /\ emitted = Idle
TableIdle == fat_bytes = Idle /\ wb_result = Idle
EntryIdle == raw_slot = Idle /\ loaded_entry = Idle /\ entry_view = Idle
TimeIdle == stamp = Idle /\ packed = Idle /\ unpacked = Idle
FuseIdle == inode = Idle /\ entry_size = Idle /\ reply = Idle
MoreIdle == TableIdle /\ EntryIdle /\ TimeIdle /\ FuseIdle

(***************************************************************************)
(* u32 arithmetic on <<hi, lo>> pairs                                      *)
(***************************************************************************)
Half == 2^16

U32(n) == <<n \div Half, n % Half>>

U32Hex(hi, lo) == <<hi, lo>>

U32ToNat(u) == u[1] * Half + u[2]

U32Lt(a, b) == a[1] < b[1] \/ (a[1] = b[1] /\ a[2] < b[2])

U32Le(a, b) == a = b \/ U32Lt(a, b)

\* u32::wrapping_add(1)
U32Succ(u) ==
    IF u[2] = Half - 1 THEN <<(u[1] + 1) % Half, 0>> ELSE <<u[1], u[2] + 1>>

U32_MAX == <<Half - 1, Half - 1>>

\* the u32 expression x + 1; overflow_checks is the build's setting: at u32::MAX the
\* addition panics with it and wraps to 0 without it
u32_plus_one(x, overflow_checks) ==
    IF x = U32_MAX /\ overflow_checks THEN [kind |-> "Panic"]
    ELSE [kind |-> "Val", val |-> U32Succ(x)]

\* RangeInclusive<u32>::contains
Contains(range, u) == U32Le(range.lo, u) /\ U32Le(u, range.hi)

Range(lo, hi) == [lo |-> lo, hi |-> hi]

(***************************************************************************)
(* fat.rs: the per-variant value ranges (impl FatOps for Fat12/16/32)      *)
(***************************************************************************)
FatTypes == {"Fat12", "Fat16", "Fat32"}

valid_clusters(f) == Range(U32(2), f.max)

reserved_clusters_end(f) ==
    CASE f.fat_type = "Fat12" -> U32Hex(0, 4086)         \* 0xFF6
      [] f.fat_type = "Fat16" -> U32Hex(0, 65526)        \* 0xFFF6
      [] f.fat_type = "Fat32" -> U32Hex(65535, 65526)    \* 0xFFFFFFF6

\* (self.max + 1)..=end: the range, or the panic of the addition
reserved_clusters(f, overflow_checks) ==
    IF u32_plus_one(f.max, overflow_checks).kind = "Panic" THEN [kind |-> "Panic"]
    ELSE Range(u32_plus_one(f.max, overflow_checks).val, reserved_clusters_end(f))

reserved_clusters_panics(f, overflow_checks) ==
    u32_plus_one(f.max, overflow_checks).kind = "Panic"

\* the builds a call on the table f is followed in: with and without overflow checks
\* when self.max + 1 overflows, and one build when it does not and both act alike
Builds(f) == IF f.max = U32_MAX THEN BOOLEAN ELSE {TRUE}

defective_cluster(f) ==
    CASE f.fat_type = "Fat12" -> U32Hex(0, 4087)         \* 0xFF7
      [] f.fat_type = "Fat16" -> U32Hex(0, 65527)        \* 0xFFF7
      [] f.fat_type = "Fat32" -> U32Hex(65535, 65527)    \* 0xFFFFFFF7

reserved_eof_clusters(f) ==
    CASE f.fat_type = "Fat12" -> Range(U32Hex(0, 4088), U32Hex(0, 4094))             \* 0xFF8..=0xFFE
      [] f.fat_type = "Fat16" -> Range(U32Hex(0, 65528), U32Hex(0, 65534))           \* 0xFFF8..=0xFFFE
      [] f.fat_type = "Fat32" -> Range(U32Hex(65535, 65528), U32Hex(65535, 65534))   \* 0xFFFFFFF8..=0xFFFFFFFE

eof_cluster(f) ==
    CASE f.fat_type = "Fat12" -> U32Hex(0, 4095)         \* 0xFFF
      [] f.fat_type = "Fat16" -> U32Hex(0, 65535)        \* 0xFFFF
      [] f.fat_type = "Fat32" -> U32Hex(65535, 65535)    \* 0xFFFFFFFF

(***************************************************************************)
(* The decoded table next_sectors has max + 1 entries, zero-filled by the  *)
(* constructor; the model keeps the non-zero part as a function on a       *)
(* finite set of cluster numbers and reads every other index as 0.         *)
(***************************************************************************)
\* the bounds assertion of get_entry: cluster < self.next_sectors.len()
entry_in_bounds(f, c) == U32Le(c, f.max)

get_entry(f, c) == IF c \in DOMAIN f.next_sectors THEN f.next_sectors[c] ELSE U32(0)

\* max as usize / 2
HalfOf(u) == <<u[1] \div 2, (u[2] + (u[1] % 2) * Half) \div 2>>

\* Fat12::new, Fat16::new, Fat32::new: the number of entries the loop over
\* chunks.iter().take(max / 2) reads from the bytes of the table, two of each chunk of
\* Fat12 and one of each chunk of Fat16 and Fat32; the entries after them stay zero
decoded_len(f) ==
    IF f.fat_type = "Fat12" THEN U32(2 * (U32ToNat(f.max) \div 2)) ELSE HalfOf(f.max)

is_decoded(f, c) == U32Lt(c, decoded_len(f))

NoVal == U32(0)

Res(kind, val) == [kind |-> kind, val |-> val]

\* Fat::get_next_cluster, with the lookup's entry as a parameter
next_of_entry(f, entry) ==
    IF entry = eof_cluster(f) \/ Contains(reserved_eof_clusters(f), entry)
    THEN Res("None", NoVal)
    ELSE IF ~Contains(valid_clusters(f), entry)
    THEN Res("InvalidEntry", entry)
    ELSE Res("Some", entry)

get_next_cluster(f, c, overflow_checks) ==
    IF c = U32(0) THEN Res("FreeCluster", NoVal)
    ELSE IF reserved_clusters_panics(f, overflow_checks) THEN Res("Panic", NoVal)
    ELSE IF Contains(reserved_clusters(f, overflow_checks), c) THEN Res("ReservedCluster", c)
    ELSE IF c = defective_cluster(f) THEN Res("DefectiveCluster", NoVal)
    ELSE IF Contains(reserved_eof_clusters(f), c) THEN Res("ReservedCluster", c)
    ELSE IF ~entry_in_bounds(f, c) THEN Res("Panic", NoVal)
    ELSE next_of_entry(f, get_entry(f, c))

(***************************************************************************)
(* The chain walk on its own: a table of one variant, a cluster number and *)
(* the entry stored for it, then one call of get_next_cluster.             *)
(***************************************************************************)
MaxCluster == 3

FAT12_MAX == 4085

FAT16_MAX == 65525

\* values of max, the count of clusters of the volume, that the constructors accept:
\* Fat12::new fails on an odd max, Fat16::new on 4085, Fat32::new on 65525
FatMaxes(ft) ==
    CASE ft = "Fat12" -> {U32(2 * MaxCluster), U32(FAT12_MAX - 1)}
      [] ft = "Fat16" -> {U32(FAT12_MAX + 1), U32(FAT16_MAX - 1)}
      [] ft = "Fat32" -> {U32(FAT16_MAX + 1), U32Hex(16, 0)}

\* the FAT32 markers of the FAT specification: 0x0FFFFFF6, 0x0FFFFFF7, 0x0FFFFFF8, 0x0FFFFFFE, 0x0FFFFFFF
Fat32DocValues ==
    {U32Hex(4095, 65526), U32Hex(4095, 65527), U32Hex(4095, 65528),
     U32Hex(4095, 65534), U32Hex(4095, 65535)}

BoundaryValues(f) ==
    {U32(0), U32(1), U32(2), U32(3), f.max, U32Succ(f.max),
     reserved_clusters_end(f), defective_cluster(f),
     reserved_eof_clusters(f).lo, reserved_eof_clusters(f).hi, eof_cluster(f)}

\* every u32 is a possible argument
ArgValues(f) ==
    BoundaryValues(f)
    \cup (IF f.fat_type = "Fat32" THEN Fat32DocValues ELSE {U32Succ(eof_cluster(f))})

\* what the table's element type can hold: u16 for Fat12 and Fat16, u32 for Fat32
EntryValues(f) ==
    BoundaryValues(f) \cup (IF f.fat_type = "Fat32" THEN Fat32DocValues ELSE {})

EmptyTable == [c \in {} |-> NoVal]

InitFat ==
    /\ \E ft \in FatTypes : \E m \in FatMaxes(ft) :
         LET f0 == [fat_type |-> ft, max |-> m, next_sectors |-> EmptyTable] IN
         \E c \in ArgValues(f0) :
         \E e \in (IF is_decoded(f0, c) THEN EntryValues(f0) ELSE {U32(0)}) :
           /\ fat = [f0 EXCEPT !.next_sectors = IF e = U32(0) THEN EmptyTable ELSE (c :> e)]
           /\ cluster = c
    /\ next_result = Idle
    /\ BpbIdle /\ ChainIdle /\ DirIdle /\ MoreIdle

FatLookup ==
    /\ next_result = Idle
    /\ \E overflow_checks \in Builds(fat) :
         next_result' = get_next_cluster(fat, cluster, overflow_checks)
    /\ UNCHANGED <<fat, cluster, bpb_vars, chain_vars, dir_vars, more_vars>>

NextFat == FatLookup

SpecFat == InitFat /\ [][NextFat]_vars

(***************************************************************************)
(* u32 arithmetic with the overflow the build's overflow checks would trap *)
(***************************************************************************)
Arith(val, ovf) == [val |-> val, ovf |-> ovf]

U32Add(a, b) ==
    LET lo == a[2] + b[2]
        hi == a[1] + b[1] + (lo \div Half)
    IN  Arith(<<hi % Half, lo % Half>>, hi >= Half)

U32Sub(a, b) ==
    LET lo == a[2] - b[2]
        hi == a[1] - b[1] - (IF lo < 0 THEN 1 ELSE 0)
    IN  Arith(<<(hi + Half) % Half, (lo + Half) % Half>>, U32Lt(a, b))

\* u32 times a u8
U32MulSmall(u, k) ==
    LET lo == u[2] * k
        hi == u[1] * k + (lo \div Half)
    IN  Arith(<<hi % Half, lo % Half>>, hi >= Half)

\* u32 divided by a u8
U32DivSmall(u, d) == <<u[1] \div d, ((u[1] % d) * Half + u[2]) \div d>>

(***************************************************************************)
(* bpb.rs: Bpb::load on the fields of the boot sector. The FAT12/16 and    *)
(* the FAT32 extension occupy the same bytes 36..90; load reads one of     *)
(* them, chosen by fat_size_16, and the record names the fields of each    *)
(* under the prefixes e16_ and e32_.                                       *)
(***************************************************************************)
\* the number of sectors per FAT: the extension loaded decides which field
fat_size(b) == IF b.fat_size_16 = 0 THEN b.e32_fat_size_32 ELSE U32(b.fat_size_16)

total_sectors(b) == IF b.total_sectors_16 = 0 THEN b.total_sectors_32 ELSE U32(b.total_sectors_16)

\* (32 * root_entry_count).div_ceil(bytes_per_sector)
root_dir_sectors(b) ==
    U32((32 * b.root_entry_count + b.bytes_per_sector - 1) \div b.bytes_per_sector)

num_data_sectors(b) ==
    LET fats == U32MulSmall(fat_size(b), b.num_fats)
        sum1 == U32Add(U32(b.reserved_sector_count), fats.val)
        sum2 == U32Add(sum1.val, root_dir_sectors(b))
        diff == U32Sub(total_sectors(b), sum2.val)
    IN  Arith(diff.val, fats.ovf \/ sum1.ovf \/ sum2.ovf \/ diff.ovf)

count_of_clusters(b) ==
    Arith(U32DivSmall(num_data_sectors(b).val, b.sectors_per_cluster), num_data_sectors(b).ovf)

first_data_sector(b) ==
    U32Add(U32Add(U32(b.reserved_sector_count), U32MulSmall(fat_size(b), b.num_fats).val).val,
           root_dir_sectors(b)).val

BpbErr(what) == [kind |-> "Err", err |-> what]

ExtBpb16_load(b) ==
    IF b.e16_drive_number \notin {128, 0} THEN BpbErr("drive_number")
    ELSE IF b.e16_volume_set /\ b.e16_boot_sig # 41 THEN BpbErr("boot_sig")
    ELSE IF b.e16_file_sys_type \notin {"FAT12   ", "FAT16   ", "FAT     "} THEN BpbErr("file_sys_type")
    ELSE IF b.signature_word # <<85, 170>> THEN BpbErr("signature_word")
    ELSE [kind |-> "Ok"]

ExtBpb32_load(b) ==
    IF b.e32_fat_size_32 = U32(0) THEN BpbErr("fat_size_32")
    ELSE IF b.e32_fs_ver # 0 THEN BpbErr("fs_ver")
    ELSE IF b.e32_bk_boot_sector \notin {0, 6} THEN BpbErr("bk_boot_sector")
    ELSE IF b.e32_reserved # 0 THEN BpbErr("reserved")
    ELSE IF b.e32_reserved1 # 0 THEN BpbErr("reserved1")
    ELSE IF b.e32_volume_set /\ b.e32_boot_sig # 41 THEN BpbErr("boot_sig")
    ELSE IF b.e32_file_sys_type # "FAT32   " THEN BpbErr("file_sys_type")
    ELSE IF b.signature_word # <<85, 170>> THEN BpbErr("signature_word")
    ELSE [kind |-> "Ok"]

FAT12_CLUSTERS == 4085

FAT16_CLUSTERS == 65525

BpbOk(b, ft, n) == [kind |-> "Ok", fat_type |-> ft, count_of_clusters |-> n, fields |-> b]

\* the classification by count_of_clusters without the checks of the extension's shape
classify_unchecked(b, ft, n) ==
    IF U32Lt(n, U32(FAT12_CLUSTERS)) THEN BpbOk(b, "Fat12", n)
    ELSE BpbOk(b, ft, n)

\* a classification that keeps the type the extension's shape gave
classify_by_shape(b, ft, n) == BpbOk(b, ft, n)

\* Bpb::load from "let count_of_clusters": ft is the type the extension's shape gave
classify(b, ft, n) ==
    IF U32Lt(n, U32(FAT12_CLUSTERS))
    THEN IF ft = "Fat16" THEN BpbOk(b, "Fat12", n) ELSE BpbErr("should be FAT12")
    ELSE IF U32Lt(n, U32(FAT16_CLUSTERS))
    THEN IF ft = "Fat16" THEN BpbOk(b, ft, n) ELSE BpbErr("should be FAT16")
    ELSE IF ft = "Fat32" THEN BpbOk(b, ft, n) ELSE BpbErr("should be FAT32")

\* a Bpb::load that looks at the media byte before the other fields
Bpb_load_media_first(b, overflow_checks) ==
    IF b.media \notin {240, 248, 249, 250, 251, 252, 253, 254, 255} THEN BpbErr("media")
    ELSE IF b.bytes_per_sector \notin {512, 1024, 2048, 4096} THEN BpbErr("bytes_per_sector")
    ELSE IF b.sectors_per_cluster \notin {1, 2, 4, 8, 16, 32, 64, 128} THEN BpbErr("sectors_per_cluster")
    ELSE IF b.reserved_sector_count = 0 THEN BpbErr("reserved_sector_count")
    ELSE IF b.fat_size_16 = 0 /\ b.total_sectors_16 # 0 THEN BpbErr("total_sectors_16")
    ELSE LET ext == IF b.fat_size_16 = 0 THEN ExtBpb32_load(b) ELSE ExtBpb16_load(b)
             ft == IF b.fat_size_16 = 0 THEN "Fat32" ELSE "Fat16"
             n == count_of_clusters(b)
         IN  IF ext.kind = "Err" THEN ext
             ELSE IF n.ovf /\ overflow_checks THEN [kind |-> "Panic"]
             ELSE classify(b, ft, n.val)

\* Bpb::load; overflow_checks is the build's setting: an overflowing u32 operation
\* panics with it and wraps without it
Bpb_load(b, overflow_checks) ==
    IF b.bytes_per_sector \notin {512, 1024, 2048, 4096} THEN BpbErr("bytes_per_sector")
    ELSE IF b.sectors_per_cluster \notin {1, 2, 4, 8, 16, 32, 64, 128} THEN BpbErr("sectors_per_cluster")
    ELSE IF b.reserved_sector_count = 0 THEN BpbErr("reserved_sector_count")
    ELSE IF b.media \notin {240, 248, 249, 250, 251, 252, 253, 254, 255} THEN BpbErr("media")
    ELSE IF b.fat_size_16 = 0 /\ b.total_sectors_16 # 0 THEN BpbErr("total_sectors_16")
    ELSE LET ext == IF b.fat_size_16 = 0 THEN ExtBpb32_load(b) ELSE ExtBpb16_load(b)
             ft == IF b.fat_size_16 = 0 THEN "Fat32" ELSE "Fat16"
             n == count_of_clusters(b)
         IN  IF ext.kind = "Err" THEN ext
             ELSE IF n.ovf /\ overflow_checks THEN [kind |-> "Panic"]
             ELSE classify(b, ft, n.val)

(***************************************************************************)
(* Boot sectors: every geometry of a small grid around the two thresholds, *)
(* with a well-formed header or with one of its fields off.                *)
(***************************************************************************)
GoodHeader ==
    [bytes_per_sector |-> 512, reserved_sector_count |-> 1, media |-> 248,
     signature_word |-> <<85, 170>>,
     e16_drive_number |-> 128, e16_boot_sig |-> 41, e16_volume_set |-> TRUE,
     e16_file_sys_type |-> "FAT16   ",
     e32_fs_ver |-> 0, e32_bk_boot_sector |-> 6, e32_reserved |-> 0, e32_reserved1 |-> 0,
     e32_boot_sig |-> 41, e32_volume_set |-> TRUE, e32_file_sys_type |-> "FAT32   "]

HeaderFaults ==
    {[bytes_per_sector |-> 513], [bytes_per_sector |-> 4096], [reserved_sector_count |-> 0],
     [reserved_sector_count |-> 32], [media |-> 1], [signature_word |-> <<0, 0>>],
     [e16_drive_number |-> 1], [e16_boot_sig |-> 0], [e16_file_sys_type |-> "FAT12   "],
     [e16_file_sys_type |-> "FAT32   "], [e32_fs_ver |-> 1], [e32_bk_boot_sector |-> 1],
     [e32_reserved |-> 1], [e32_reserved1 |-> 1], [e32_boot_sig |-> 0],
     [e32_file_sys_type |-> "FAT16   "],
     [bytes_per_sector |-> 513, media |-> 1],
     [reserved_sector_count |-> 0, signature_word |-> <<0, 0>>],
     [media |-> 1, signature_word |-> <<0, 0>>]}

Headers == {GoodHeader} \cup {h @@ GoodHeader : h \in HeaderFaults}

Geometries ==
    [sectors_per_cluster : {1, 2, 3},
     num_fats : {1, 2},
     root_entry_count : {0, 16},
     fat_size_16 : {0, 1, 3},
     total_sectors_16 : {0, 2, FAT12_CLUSTERS + 2, FAT12_CLUSTERS + 3, FAT16_CLUSTERS + 2},
     total_sectors_32 : {U32(0), U32(FAT12_CLUSTERS + 3), U32(FAT16_CLUSTERS + 1),
                         U32(FAT16_CLUSTERS + 2), U32(FAT16_CLUSTERS + 3)},
     e32_fat_size_32 : {U32(0), U32(1), U32Hex(32768, 0)}]

InitBpb ==
    /\ \E h \in Headers : \E g \in Geometries : boot = h @@ g
    /\ bpb_result = Idle
    /\ FatIdle /\ ChainIdle /\ DirIdle /\ MoreIdle

BpbLoad ==
    /\ bpb_result = Idle
    /\ \E overflow_checks \in BOOLEAN : bpb_result' = Bpb_load(boot, overflow_checks)
    /\ UNCHANGED <<boot, fat_vars, chain_vars, dir_vars, more_vars>>

(***************************************************************************)
(* lib.rs, subslice.rs, iter.rs: cluster windows and the chain streams.    *)
(* An Option<u32> is [some, val]; a window (SubSlice, SubSliceMut) is the  *)
(* absolute offset of its next byte and the number of bytes left in it.    *)
(***************************************************************************)
\* FatFs.bytes_per_cluster and FatFs.data_offset. Offsets and lengths of the streams
\* are counted in blocks of 256 bytes, and the callers read, write and skip whole
\* blocks: a cluster of 2 blocks is one sector of 512 bytes, the data region starts
\* after 2 sectors, and a byte of a log or of the backend stands for a block
BytesPerCluster == 2

DataOffset == 4

MaxBuf == 3

MaxSkip == 5

None == [some |-> FALSE, val |-> NoVal]

Some(c) == [some |-> TRUE, val |-> c]

\* FatFs::next_cluster(c).unwrap_or(None): every error of the chain walk reads as the end
next_or_none(f, c, overflow_checks) ==
    LET r == get_next_cluster(f, c, overflow_checks) IN
    IF r.kind = "Some" THEN Some(r.val) ELSE None

\* the calls of get_next_cluster that hit the bounds assertion of get_entry
next_panics(f, c, overflow_checks) == get_next_cluster(f, c, overflow_checks).kind = "Panic"

\* FatFs::data_cluster_to_offset, for a cluster that passes its assertion
data_cluster_to_offset(c) == DataOffset + (U32ToNat(c) - 2) * BytesPerCluster

\* FatFs::cluster_as_subslice and cluster_as_subslice_mut: the window built for
\* cluster 0 is dropped, and the assertion of data_cluster_to_offset decides
cluster_as_subslice(f, c) ==
    IF Contains(valid_clusters(f), c)
    THEN [kind |-> "Ok", offset |-> data_cluster_to_offset(c), len |-> BytesPerCluster]
    ELSE [kind |-> "Panic"]

Panicked == [kind |-> "panicked"]

Hung == [kind |-> "hung"]

\* ClusterChainReader::new and ClusterChainWriter::new
chain_new(kind, f, first_cluster, overflow_checks) ==
    IF next_panics(f, first_cluster, overflow_checks) \/ cluster_as_subslice(f, first_cluster).kind = "Panic"
    THEN Panicked
    ELSE [kind |-> kind,
          offset |-> cluster_as_subslice(f, first_cluster).offset,
          len |-> cluster_as_subslice(f, first_cluster).len,
          next_cluster |-> next_or_none(f, first_cluster, overflow_checks)]

Moved(s, ok) == [s |-> s, ok |-> ok]

\* a move_to_next_cluster that reads the next link and keeps the drained window
move_keeping_window(f, s, overflow_checks) ==
    IF ~s.next_cluster.some THEN Moved(s, FALSE)
    ELSE Moved([s EXCEPT !.next_cluster = next_or_none(f, s.next_cluster.val, overflow_checks)], TRUE)

\* ClusterChainReader::move_to_next_cluster
reader_move_to_next_cluster(f, s, overflow_checks) ==
    IF ~s.next_cluster.some THEN Moved(s, FALSE)
    ELSE Moved([s EXCEPT !.next_cluster = next_or_none(f, s.next_cluster.val, overflow_checks),
                         !.offset = cluster_as_subslice(f, s.next_cluster.val).offset,
                         !.len = cluster_as_subslice(f, s.next_cluster.val).len],
               TRUE)

\* ClusterChainWriter::move_to_next_cluster: the window of the next cluster is
\* built and dropped, self.sub_slice stays
writer_move_to_next_cluster(f, s, overflow_checks) ==
    IF ~s.next_cluster.some THEN Moved(s, FALSE)
    ELSE Moved([s EXCEPT !.next_cluster = next_or_none(f, s.next_cluster.val, overflow_checks)], TRUE)

move_to_next_cluster(f, s, overflow_checks) ==
    IF s.kind = "reader" THEN reader_move_to_next_cluster(f, s, overflow_checks)
    ELSE writer_move_to_next_cluster(f, s, overflow_checks)

Min(a, b) == IF a < b THEN a ELSE b

\* SubSlice::skip, SubSliceMut::skip
sub_slice_skip(s, n) ==
    [s |-> [s EXCEPT !.offset = @ + Min(n, s.len), !.len = @ - Min(n, s.len)],
     ret |-> Min(n, s.len)]

\* the bytes of the backend at offset .. offset + n
DiskBytes(d, offset, n) == [i \in 1..n |-> d[offset + i - 1]]

\* SubSlice::read into a buffer of buf_len bytes
sub_slice_read(d, s, buf_len) ==
    [s |-> [s EXCEPT !.offset = @ + Min(s.len, buf_len), !.len = @ - Min(s.len, buf_len)],
     ret |-> Min(s.len, buf_len),
     at |-> s.offset,
     bytes |-> DiskBytes(d, s.offset, Min(s.len, buf_len))]

\* SubSliceMut::write of the bytes buf
sub_slice_write(d, s, buf) ==
    LET n == Min(s.len, Len(buf)) IN
    [s |-> [s EXCEPT !.offset = @ + n, !.len = @ - n],
     ret |-> n,
     at |-> s.offset,
     disk |-> [o \in DOMAIN d |->
                 IF o >= s.offset /\ o < s.offset + n THEN buf[o - s.offset + 1] ELSE d[o]]]

\* impl Read for ClusterChainReader
chain_read(f, d, s, buf_len, overflow_checks) ==
    IF s.len = 0 /\ ~move_to_next_cluster(f, s, overflow_checks).ok
    THEN [s |-> s, ret |-> 0, at |-> s.offset, bytes |-> <<>>]
    ELSE sub_slice_read(d, IF s.len = 0 THEN move_to_next_cluster(f, s, overflow_checks).s ELSE s, buf_len)

\* impl Write for ClusterChainWriter
chain_write(f, d, s, buf, overflow_checks) ==
    IF s.len = 0 /\ ~move_to_next_cluster(f, s, overflow_checks).ok
    THEN [s |-> s, ret |-> 0, at |-> s.offset, disk |-> d]
    ELSE sub_slice_write(d, IF s.len = 0 THEN move_to_next_cluster(f, s, overflow_checks).s ELSE s, buf)

\* ClusterChainReader::skip and ClusterChainWriter::skip: the while loop, then the
\* skip inside the window. visited holds the lookaheads met with an empty window:
\* meeting one again, the loop runs forever
RECURSIVE skip_loop(_, _, _, _, _, _)
skip_loop(f, s, n, bytes_to_skip, visited, overflow_checks) ==
    IF bytes_to_skip > s.len
    THEN IF s.len = 0 /\ s.next_cluster \in visited
         THEN [s |-> Hung, ret |-> 0]
         ELSE IF ~move_to_next_cluster(f, s, overflow_checks).ok
              THEN [s |-> s, ret |-> n - (bytes_to_skip - s.len)]
              ELSE skip_loop(f, move_to_next_cluster(f, s, overflow_checks).s, n, bytes_to_skip - s.len,
                             IF s.len = 0 THEN visited \cup {s.next_cluster} ELSE {}, overflow_checks)
    ELSE [s |-> sub_slice_skip(s, bytes_to_skip).s, ret |-> n]

chain_skip(f, s, n, overflow_checks) == skip_loop(f, s, n, n, {}, overflow_checks)

(***************************************************************************)
(* A volume with a decoded table, one stream opened on it, and the reads,  *)
(* writes and skips of that stream.                                        *)
(***************************************************************************)
Closed == [kind |-> "closed"]

NoOp == [op |-> "none", arg |-> 0, ret |-> 0, at |-> 0, pre |-> Closed]

\* a log of the bytes moved since the opening, kept while no skip has happened
Log(bytes) == [whole |-> TRUE, bytes |-> bytes]

Tainted == [whole |-> FALSE, bytes |-> <<>>]

ChainClusters == {U32(c) : c \in 2..MaxCluster}

\* a max of each variant whose table has decoded entries for the clusters 2..=MaxCluster
ChainMax(ft) ==
    CASE ft = "Fat12" -> U32(2 * MaxCluster)
      [] ft = "Fat16" -> U32(FAT12_MAX + 1)
      [] ft = "Fat32" -> U32(FAT16_MAX + 1)

\* what a table entry of a cluster holds: a link to a cluster, or one of the markers
\* that end a chain
ChainEntries(f) ==
    ChainClusters
    \cup {eof_cluster(f)}
    \cup (IF f.fat_type = "Fat32" THEN {U32Hex(4095, 65535)}    \* 0x0FFFFFFF
          ELSE {reserved_eof_clusters(f).lo})

\* the smallest and the largest variant
ChainFatTypes == {"Fat12", "Fat32"}

\* the i-th byte a caller hands to write, counted from the opening of the stream
WriteByte(i) == 100 + i

WriteBuf(from, n) == [i \in 1..n |-> WriteByte(from + i)]

Logged(log) == Len(log.bytes)

InitChain ==
    /\ \E ft \in ChainFatTypes :
         LET f0 == [fat_type |-> ft, max |-> ChainMax(ft), next_sectors |-> EmptyTable] IN
         \E t \in [ChainClusters -> ChainEntries(f0)] :
           fat = [f0 EXCEPT !.next_sectors = t]
    /\ cluster = Idle /\ next_result = Idle
    /\ disk = [o \in DataOffset .. (DataOffset + (MaxCluster - 1) * BytesPerCluster - 1) |-> o]
    /\ stream = Closed
    /\ first = Idle
    /\ rd_out = Log(<<>>)
    /\ wr_in = Log(<<>>)
    /\ last_op = NoOp
    /\ BpbIdle /\ DirIdle /\ MoreIdle

\* FatFs::file_reader, FatFs::dir_iter
OpenReader ==
    /\ stream = Closed
    /\ \E overflow_checks \in Builds(fat) : \E c \in ChainClusters \cup {U32(0)} :
         /\ stream' = chain_new("reader", fat, c, overflow_checks)
         /\ first' = c
    /\ UNCHANGED <<fat, cluster, next_result, disk, rd_out, wr_in, last_op, bpb_vars, dir_vars, more_vars>>

\* FatFs::file_writer
OpenWriter ==
    /\ stream = Closed
    /\ \E overflow_checks \in Builds(fat) : \E c \in ChainClusters \cup {U32(0)} :
         /\ stream' = chain_new("writer", fat, c, overflow_checks)
         /\ first' = c
    /\ UNCHANGED <<fat, cluster, next_result, disk, rd_out, wr_in, last_op, bpb_vars, dir_vars, more_vars>>

Read ==
    /\ stream.kind = "reader"
    /\ \E overflow_checks \in Builds(fat) : \E buf_len \in 0..MaxBuf :
         LET r == chain_read(fat, disk, stream, buf_len, overflow_checks) IN
         /\ Len(rd_out.bytes) + r.ret <= MaxCluster * BytesPerCluster
         /\ stream' = r.s
         /\ rd_out' = IF rd_out.whole THEN Log(rd_out.bytes \o r.bytes) ELSE Tainted
         /\ last_op' = [op |-> "read", arg |-> buf_len, ret |-> r.ret, at |-> r.at, pre |-> stream]
    /\ UNCHANGED <<fat, cluster, next_result, disk, first, wr_in, bpb_vars, dir_vars, more_vars>>

Write ==
    /\ stream.kind = "writer"
    /\ \E overflow_checks \in Builds(fat) : \E buf_len \in 0..MaxBuf :
         LET r == chain_write(fat, disk, stream, WriteBuf(Logged(wr_in), buf_len), overflow_checks) IN
         /\ stream' = r.s
         /\ disk' = r.disk
         /\ wr_in' = IF wr_in.whole THEN Log(wr_in.bytes \o WriteBuf(Logged(wr_in), r.ret))
                     ELSE Tainted
         /\ last_op' = [op |-> "write", arg |-> buf_len, ret |-> r.ret, at |-> r.at, pre |-> stream]
    /\ UNCHANGED <<fat, cluster, next_result, first, rd_out, bpb_vars, dir_vars, more_vars>>

Skip ==
    /\ stream.kind \in {"reader", "writer"}
    /\ \E overflow_checks \in Builds(fat) : \E n \in 0..MaxSkip :
         LET r == chain_skip(fat, stream, n, overflow_checks) IN
         /\ stream' = r.s
         /\ last_op' = [op |-> "skip", arg |-> n, ret |-> r.ret, at |-> stream.offset, pre |-> stream]
    /\ rd_out' = Tainted
    /\ wr_in' = Tainted
    /\ UNCHANGED <<fat, cluster, next_result, disk, first, bpb_vars, dir_vars, more_vars>>

NextChain == OpenReader \/ OpenWriter \/ Read \/ Write \/ Skip

SpecChain == InitChain /\ [][NextChain]_vars

\* a caller reading a stream to its end (Read::read_to_end, DirIter::next_impl): one
\* read into a buffer with room. The log of the reads is not kept
Drain ==
    /\ stream.kind = "reader"
    /\ \E overflow_checks \in Builds(fat) : \E buf_len \in 1..MaxBuf :
         LET r == chain_read(fat, disk, stream, buf_len, overflow_checks) IN
         /\ stream' = r.s
         /\ last_op' = [op |-> "read", arg |-> buf_len, ret |-> r.ret, at |-> r.at, pre |-> stream]
    /\ rd_out' = Tainted
    /\ UNCHANGED <<fat, cluster, next_result, disk, first, wr_in, bpb_vars, dir_vars, more_vars>>

NextDrain == OpenReader \/ Drain

\* the caller keeps reading until a read returns 0
SpecDrain == InitChain /\ [][NextDrain]_vars /\ WF_vars(Drain)

(***************************************************************************)
(* fat.rs: the table and its bytes on disk. The bytes are kept in chunks   *)
(* of the width of one entry of the variant (3 bytes hold two entries of   *)
(* Fat12): [nchunks, rem, chunks], with chunks a function on the indices   *)
(* of the chunks that are not zero and rem the bytes after the last chunk. *)
(***************************************************************************)
\* the size of an element of bytes.as_chunks::<N>()
chunk_width(ft) == CASE ft = "Fat12" -> 3 [] ft = "Fat16" -> 2 [] ft = "Fat32" -> 4

ZeroChunk(ft) == [i \in 1..chunk_width(ft) |-> 0]

ChunkAt(ft, bytes, k) == IF k \in DOMAIN bytes.chunks THEN bytes.chunks[k] ELSE ZeroChunk(ft)

\* u16::from_le_bytes
u16_from_le_bytes(b) == b[1] + 256 * b[2]

\* u32::from_le_bytes
u32_from_le_bytes(b) == <<b[3] + 256 * b[4], b[1] + 256 * b[2]>>

\* the first (even) entry of a triple: u16::from_le_bytes(triple[..2]) & 0xFFF
fat12_first(triple) == u16_from_le_bytes(<<triple[1], triple[2]>>) % 4096

\* the second (odd) entry of a triple: u16::from_le_bytes(triple[1..]) >> 4
fat12_second(triple) == u16_from_le_bytes(<<triple[2], triple[3]>>) \div 16

\* the loop of the constructors: chunks.iter().take(max as usize / 2)
chunks_taken(bytes, max) == Min(bytes.nchunks, U32ToNat(max) \div 2)

LoadedTable(ft, max, tbl) == [fat_type |-> ft, max |-> max, next_sectors |-> tbl]

\* Fat12::new. With an odd max, chunks[max / 2 + 1] is out of bounds, or else
\* next_sectors[2 * (max / 2 + 1)] is: the index is max + 1, the length of the table
Fat12_new(bytes, max) ==
    IF ~U32Le(max, U32(FAT12_MAX)) \/ bytes.rem # 0 THEN Panicked
    ELSE IF U32ToNat(max) % 2 = 1 THEN Panicked
    ELSE LET loaded == {k \in DOMAIN bytes.chunks : k < chunks_taken(bytes, max)} IN
         LoadedTable("Fat12", max,
             [c \in {U32(e) : e \in UNION {{2 * k, 2 * k + 1} : k \in loaded}} |->
                 IF c[2] % 2 = 0 THEN U32(fat12_first(bytes.chunks[c[2] \div 2]))
                 ELSE U32(fat12_second(bytes.chunks[c[2] \div 2]))])

\* Fat16::new
Fat16_new(bytes, max) ==
    IF ~(U32Lt(U32(FAT12_MAX), max) /\ U32Le(max, U32(FAT16_MAX))) \/ bytes.rem # 0
    THEN Panicked
    ELSE LET loaded == {k \in DOMAIN bytes.chunks : k < chunks_taken(bytes, max)} IN
         LoadedTable("Fat16", max,
             [c \in {U32(k) : k \in loaded} |-> U32(u16_from_le_bytes(bytes.chunks[U32ToNat(c)]))])

\* Fat32::new
Fat32_new(bytes, max) ==
    IF ~U32Lt(U32(FAT16_MAX), max) \/ bytes.rem # 0 THEN Panicked
    ELSE LET loaded == {k \in DOMAIN bytes.chunks : k < chunks_taken(bytes, max)} IN
         LoadedTable("Fat32", max,
             [c \in {U32(k) : k \in loaded} |-> u32_from_le_bytes(bytes.chunks[U32ToNat(c)])])

\* Fat::new
Fat_new(ft, bytes, max) ==
    CASE ft = "Fat12" -> Fat12_new(bytes, max)
      [] ft = "Fat16" -> Fat16_new(bytes, max)
      [] ft = "Fat32" -> Fat32_new(bytes, max)

\* FatOps::set_entry: next_sectors[cluster as usize] = entry as u16 (entry for Fat32)
set_entry(f, c, entry) ==
    IF ~entry_in_bounds(f, c) THEN Panicked
    ELSE LET e == IF f.fat_type = "Fat32" THEN entry ELSE <<0, entry[2]>> IN
         [f EXCEPT !.next_sectors =
             [d \in DOMAIN f.next_sectors \cup {c} |-> IF d = c THEN e ELSE f.next_sectors[d]]]

RECURSIVE BitOr(_, _)
BitOr(a, b) ==
    IF a = 0 THEN b
    ELSE IF b = 0 THEN a
    ELSE (IF a % 2 = 1 \/ b % 2 = 1 THEN 1 ELSE 0) + 2 * BitOr(a \div 2, b \div 2)

\* u16::to_le_bytes
u16_to_le_bytes(e) == <<e % 256, e \div 256>>

\* u32::to_le_bytes
u32_to_le_bytes(e) == <<e[2] % 256, e[2] \div 256, e[1] % 256, e[1] \div 256>>

\* the three bytes Fat12::write_to_disk builds of chunk[0] and chunk[1]; second << 4
\* is a shift of a u16
fat12_pack(fst, snd) ==
    LET shifted == (snd * 16) % Half IN
    <<u16_to_le_bytes(fst)[1],
      BitOr(u16_to_le_bytes(fst)[2], u16_to_le_bytes(shifted)[1]),
      u16_to_le_bytes(shifted)[2]>>

\* self.next_sectors.len()
table_len(f) == U32ToNat(f.max) + 1

\* the number of buffers write_to_disk hands to write_all: one of each chunks_exact(3)
\* of the entries of Fat12, one of each entry of Fat16 and Fat32
bufs_written(f) == IF f.fat_type = "Fat12" THEN table_len(f) \div 3 ELSE table_len(f)

\* the k-th buffer write_to_disk hands to write_all
buf_written(f, k) ==
    CASE f.fat_type = "Fat12" ->
            fat12_pack(get_entry(f, U32(3 * k))[2], get_entry(f, U32(3 * k + 1))[2])
      [] f.fat_type = "Fat16" -> u16_to_le_bytes(get_entry(f, U32(k))[2])
      [] f.fat_type = "Fat32" ->
            u32_to_le_bytes(get_entry(f, <<k \div Half, k % Half>>))

\* the indices of the buffers that are not zero
bufs_not_zero(f) ==
    {k \in {IF f.fat_type = "Fat12" THEN U32ToNat(c) \div 3 ELSE U32ToNat(c) :
               c \in DOMAIN f.next_sectors} : k < bufs_written(f)}

WbRes(kind, bytes) == [kind |-> kind, bytes |-> bytes]

\* Fat12::write_to_disk, Fat16::write_to_disk, Fat32::write_to_disk on a window of len
\* bytes at the start of bytes: write_all fails with WriteZero once the window is full
write_to_disk(f, bytes, len) ==
    LET w == chunk_width(f.fat_type)
        written == Min(len, w * bufs_written(f))
        touched == {k \in DOMAIN bytes.chunks \cup bufs_not_zero(f) : w * k < written}
        chunk(k) == [i \in 1..w |-> IF w * k + i <= written THEN buf_written(f, k)[i]
                                    ELSE ChunkAt(f.fat_type, bytes, k)[i]]
        out == [bytes EXCEPT !.chunks =
                   [k \in DOMAIN bytes.chunks \cup touched |->
                       IF k \in touched THEN chunk(k) ELSE bytes.chunks[k]]]
    IN  IF w * len # table_len(f) THEN WbRes("Panic", bytes)
        ELSE IF written < w * bufs_written(f) THEN WbRes("WriteZero", out)
        ELSE IF f.fat_type = "Fat12" /\ table_len(f) % 3 # 0 THEN WbRes("Panic", out)
        ELSE WbRes("Ok", out)

(***************************************************************************)
(* A FAT region on disk, the table Fat::new decodes of it, set_entry calls *)
(* on the table and write_to_disk calls that write it back.                *)
(***************************************************************************)
MaxSets == 1

IsLoaded(f) == "next_sectors" \in DOMAIN f

\* max as the count of clusters of the volume; a table of an odd max or of a length
\* the assertion of write_to_disk cannot meet is among them
TableMaxes(ft) ==
    CASE ft = "Fat12" -> {U32(2), U32(5), U32(2 * MaxCluster), U32(2 * MaxCluster + 2)}
      [] ft = "Fat16" -> {U32(FAT12_MAX + 1), U32(FAT12_MAX + 2)}
      [] ft = "Fat32" -> {U32(FAT16_MAX + 1), U32(FAT16_MAX + 2)}

\* the chunks of the region that are not zero: the triple of the entries 0x123 and
\* 0x456, the entry 3, and the chunks of the EOF marker
TableChunks(ft) ==
    CASE ft = "Fat12" -> {<<35, 97, 69>>, <<255, 255, 255>>}
      [] ft = "Fat16" -> {<<3, 0>>, <<255, 255>>}
      [] ft = "Fat32" -> {<<3, 0, 0, 0>>, <<255, 255, 255, 15>>}

\* the index of the chunk that holds the entry of cluster c
chunk_of(ft, c) == IF ft = "Fat12" THEN c \div 2 ELSE c

\* the clusters the model follows: one of the first half of the table, the first of
\* the second half, and max
TableClusters(ft, max) ==
    IF ft = "Fat12" THEN {0, U32ToNat(max)}
    ELSE {2, U32ToNat(max) \div 2, U32ToNat(max)}

\* the region holds a chunk for every entry of the table
RegionChunks(ft, max) == chunk_of(ft, U32ToNat(max)) + 1

InitTable ==
    /\ \E ft \in FatTypes : \E max \in TableMaxes(ft) :
       \E rem \in (IF ft = "Fat12" THEN {0, 2} ELSE {0}) :
       \E on \in SUBSET {chunk_of(ft, c) : c \in TableClusters(ft, max)} :
       \E ch \in [on -> TableChunks(ft)] :
         /\ fat = [fat_type |-> ft, max |-> max]
         /\ fat_bytes = [nchunks |-> RegionChunks(ft, max), rem |-> rem, chunks |-> ch]
    /\ wb_result = [op |-> "none", kind |-> "Ok", sets |-> 0]
    /\ cluster = Idle /\ next_result = Idle
    /\ BpbIdle /\ ChainIdle /\ DirIdle /\ EntryIdle /\ TimeIdle /\ FuseIdle

\* Fat::new on the bytes of the region (FatFs::load)
TableLoad ==
    /\ wb_result.op = "none"
    /\ fat' = Fat_new(fat.fat_type, fat_bytes, fat.max)
    /\ wb_result' = [wb_result EXCEPT !.op = "new",
                                      !.kind = IF IsLoaded(fat') THEN "Ok" ELSE "Panic"]
    /\ UNCHANGED <<fat_bytes, cluster, next_result, bpb_vars, chain_vars, dir_vars, entry_vars, time_vars, fuse_vars>>

TableSetEntry ==
    /\ IsLoaded(fat)
    /\ wb_result.sets < MaxSets
    /\ \E c \in TableClusters(fat.fat_type, fat.max) :
       \E e \in {U32(3), eof_cluster(fat)} :
         /\ fat' = set_entry(fat, U32(c), e)
         /\ wb_result' = [op |-> "set_entry", kind |-> "Ok", sets |-> wb_result.sets + 1]
    /\ UNCHANGED <<fat_bytes, cluster, next_result, bpb_vars, chain_vars, dir_vars, entry_vars, time_vars, fuse_vars>>

\* write_to_disk on a window at the start of the region: of the length its assertion
\* asks for, or of the length of the region
TableWrite ==
    /\ IsLoaded(fat)
    /\ \E len \in {table_len(fat) \div chunk_width(fat.fat_type),
                   chunk_width(fat.fat_type) * fat_bytes.nchunks} :
         LET r == write_to_disk(fat, fat_bytes, len) IN
         /\ fat_bytes' = r.bytes
         /\ wb_result' = [wb_result EXCEPT !.op = "write_to_disk", !.kind = r.kind]
    /\ UNCHANGED <<fat, cluster, next_result, bpb_vars, chain_vars, dir_vars, entry_vars, time_vars, fuse_vars>>

NextTable == TableLoad \/ TableSetEntry \/ TableWrite

SpecTable == InitTable /\ [][NextTable]_vars

(***************************************************************************)
(* lib.rs: FatFs::load on a device of total_sectors sectors, from the boot *)
(* sector to the decoded table. The bytes of the FAT region are zero.      *)
(***************************************************************************)
\* Bpb::fat_len_bytes: bytes_per_sector() as usize * fat_size() as usize
fat_len_bytes(b) == b.bytes_per_sector * U32ToNat(fat_size(b))

\* the device: total_sectors sectors of bytes_per_sector bytes, the boot sector first
device_sectors(b) == total_sectors(b)

\* read_at_offset(0, &mut bpb_bytes) of the 512 bytes of the boot sector fails on a
\* device shorter than that
boot_read_fails(b) ==
    device_sectors(b)[1] = 0 /\ device_sectors(b)[2] * b.bytes_per_sector < 512

\* Bpb::fat_offset and the end of the FAT region, in sectors: u64 and usize do not wrap
fat_end_sector(b) == U32Add(U32(b.reserved_sector_count), fat_size(b))

\* read_at_offset(bpb.fat_offset(), &mut fat_buf) fails when the region ends past the device
fat_read_fails(b) ==
    fat_end_sector(b).ovf \/ U32Lt(device_sectors(b), fat_end_sector(b).val)

\* vec![0; bpb.fat_len_bytes()]: the allocation the host may refuse, a buffer longer
\* than the device
fat_buf_may_abort(b) == U32Lt(device_sectors(b), fat_size(b))

\* the buffer fat_buf: vec![0; bpb.fat_len_bytes()] filled by read_at_offset
fat_buf(b, ft) ==
    [nchunks |-> fat_len_bytes(b) \div chunk_width(ft),
     rem |-> fat_len_bytes(b) % chunk_width(ft),
     chunks |-> [k \in {} |-> ZeroChunk(ft)]]

IoErr == [kind |-> "Err"]

\* the process was aborted: "memory allocation of n bytes failed"
Aborted == [kind |-> "Abort"]

\* FatFs::load: [bpb, fat], what Bpb::load returned (Idle when it was not called) and
\* the table Fat::new built. host_grants: the host serves the allocation of fat_buf
FatFs_load(b, overflow_checks, host_grants) ==
    IF boot_read_fails(b) THEN [bpb |-> Idle, fat |-> IoErr]
    ELSE LET bpb == Bpb_load(b, overflow_checks) IN
         IF bpb.kind # "Ok" THEN [bpb |-> bpb, fat |-> Idle]
         ELSE IF fat_buf_may_abort(b) /\ ~host_grants THEN [bpb |-> bpb, fat |-> Aborted]
         ELSE IF fat_read_fails(b) THEN [bpb |-> bpb, fat |-> IoErr]
         ELSE [bpb |-> bpb,
               fat |-> Fat_new(bpb.fat_type, fat_buf(b, bpb.fat_type), bpb.count_of_clusters)]

FsLoad ==
    /\ bpb_result = Idle /\ fat = Idle
    /\ \E overflow_checks \in BOOLEAN : \E host_grants \in BOOLEAN :
         /\ bpb_result' = FatFs_load(boot, overflow_checks, host_grants).bpb
         /\ fat' = FatFs_load(boot, overflow_checks, host_grants).fat
    /\ UNCHANGED <<boot, cluster, next_result, chain_vars, dir_vars, more_vars>>

NextBpb == BpbLoad \/ FsLoad

SpecBpb == InitBpb /\ [][NextBpb]_vars

(***************************************************************************)
(* dir.rs, datetime.rs: the 32-byte slots of a directory. A slot is the    *)
(* sequence of its bytes: bytes[i] of the source is Byte(bytes, i).        *)
(***************************************************************************)
Byte(bytes, i) == bytes[i + 1]

\* &bytes[from..][..n]
Slice(bytes, from, n) == [i \in 1..n |-> bytes[from + i]]

load_u16_le(bytes, i) == Byte(bytes, i) + 256 * Byte(bytes, i + 1)

\* the bits of Attr
Hidden == 2

VolumeId == 8

Directory == 16

LongName == 15

\* Attr::contains for a flag of one bit
HasBit(x, bit) == (x \div bit) % 2 = 1

\* Attr::from_bits_truncate: the bits of the six flags
from_bits_truncate(x) == x % 64

RECURSIVE truncate_trailing_spaces(_)
truncate_trailing_spaces(bytes) ==
    IF bytes # <<>> /\ bytes[Len(bytes)] = 32
    THEN truncate_trailing_spaces(SubSeq(bytes, 1, Len(bytes) - 1))
    ELSE bytes

\* the match of load_name: a byte >= 128 becomes b'?'
reject_non_ascii(c) == IF c >= 128 THEN 63 ELSE c

\* DirEntry::load_name: the 13 bytes of name
load_name(bytes, attr) ==
    LET dot == IF HasBit(attr, Hidden) /\ ~HasBit(attr, VolumeId) THEN <<46>> ELSE <<>>
        stem_bytes == truncate_trailing_spaces(SubSeq(bytes, 1, 8))
        ext_bytes == truncate_trailing_spaces(SubSeq(bytes, 9, 11))
        stem == [i \in 1..Len(stem_bytes) |-> reject_non_ascii(stem_bytes[i])]
        ext == IF ext_bytes = <<>> THEN <<>>
               ELSE <<46>> \o [i \in 1..Len(ext_bytes) |-> reject_non_ascii(ext_bytes[i])]
        used == dot \o stem \o ext
    IN  [i \in 1..13 |-> IF i <= Len(used) THEN used[i] ELSE 0]

\* DirEntry::checksum: rotate right by one bit, then a wrapping add, over the bytes
RECURSIVE checksum_from(_, _)
checksum_from(name, acc) ==
    IF name = <<>> THEN acc
    ELSE checksum_from(Tail(name), ((acc \div 2) + (acc % 2) * 128 + Head(name)) % 256)

checksum(name) == checksum_from(name, 0)

\* Date::new: day() <= 31 and month() <= 12
Date_new_ok(repr) == (repr % 32) <= 31 /\ ((repr \div 32) % 16) <= 12

DirErr(what) == [kind |-> "Err", what |-> what]

\* DirEntry::load
DirEntry_load(bytes) ==
    LET attr == from_bits_truncate(Byte(bytes, 11))
        file_size == U32Hex(load_u16_le(bytes, 30), load_u16_le(bytes, 28))
        first_cluster == U32Hex(load_u16_le(bytes, 20), load_u16_le(bytes, 26))
    IN  IF Byte(bytes, 13) > 199 THEN DirErr("invalid DIR_CrtTimeTenth")
        ELSE IF ~Date_new_ok(load_u16_le(bytes, 16)) THEN DirErr("invalid month for date")
        ELSE IF ~Date_new_ok(load_u16_le(bytes, 18)) THEN DirErr("invalid month for date")
        ELSE IF ~Date_new_ok(load_u16_le(bytes, 24)) THEN DirErr("invalid month for date")
        ELSE IF HasBit(attr, VolumeId) /\ first_cluster # U32(0)
             THEN DirErr("volume id with first cluster")
        ELSE IF HasBit(attr, Directory) /\ file_size # U32(0)
             THEN DirErr("directory with file size")
        ELSE [kind |-> "Regular",
              name |-> load_name(Slice(bytes, 0, 11), attr),
              attr |-> attr,
              create_time_tenths |-> Byte(bytes, 13),
              create_time |-> load_u16_le(bytes, 14),
              create_date |-> load_u16_le(bytes, 16),
              last_access_date |-> load_u16_le(bytes, 18),
              first_cluster |-> first_cluster,
              write_time |-> load_u16_le(bytes, 22),
              write_date |-> load_u16_le(bytes, 24),
              file_size |-> file_size,
              long_name |-> {},
              checksum |-> checksum(Slice(bytes, 0, 11))]

\* DirEntry::is_empty, DirEntry::is_sentinel
is_empty(e) == e.name[1] = 229 \/ e.name[1] = 0

is_sentinel(e) == e.name[1] = 0

\* the 13 code units of a long-name slot: name1 at 1, name2 at 14, name3 at 28
lfn_units(bytes) ==
    [i \in 1..13 |->
        IF i <= 5 THEN load_u16_le(bytes, 1 + 2 * (i - 1))
        ELSE IF i <= 11 THEN load_u16_le(bytes, 14 + 2 * (i - 6))
        ELSE load_u16_le(bytes, 28 + 2 * (i - 12))]

\* LongNameDirEntry::load. The message of the LDIR_FstClusLO check calls load_u32_le
\* on two bytes, whose assertion fails
LongNameDirEntry_load(bytes) ==
    IF Byte(bytes, 11) % 16 # LongName THEN DirErr("not a long name entry")
    ELSE IF Byte(bytes, 12) # 0 THEN DirErr("LDIR_Type must be 0")
    ELSE IF Byte(bytes, 26) # 0 \/ Byte(bytes, 27) # 0 THEN [kind |-> "Panic"]
    ELSE [kind |-> "LongName",
          ordinal |-> IF HasBit(Byte(bytes, 0), 64) THEN Byte(bytes, 0) - 64 ELSE Byte(bytes, 0),
          is_last |-> HasBit(Byte(bytes, 0), 64),
          name |-> lfn_units(bytes),
          checksum |-> Byte(bytes, 13)]

\* DirEntryWrapper::load
DirEntryWrapper_load(bytes) ==
    IF from_bits_truncate(Byte(bytes, 11)) = LongName
    THEN LongNameDirEntry_load(bytes)
    ELSE DirEntry_load(bytes)

(***************************************************************************)
(* dir.rs: LongFilenameBuf and DirIter. An Option<u8> is the set of its    *)
(* values: {} is None.                                                     *)
(***************************************************************************)
EmptyBuf == [rev_buf |-> <<>>, checksum |-> {}, last_ordinal |-> {}]

\* LongFilenameBuf::reset
reset(buf) == EmptyBuf

Unwrap(opt) == CHOOSE v \in opt : TRUE

Reverse(seq) == [i \in 1..Len(seq) |-> seq[Len(seq) + 1 - i]]

\* while name.last() == Some(&0xFFFF)
RECURSIVE trim_padding(_)
trim_padding(name) ==
    IF name # <<>> /\ name[Len(name)] = 65535
    THEN trim_padding(SubSeq(name, 1, Len(name) - 1))
    ELSE name

\* LongFilenameBuf::extend_name
extend_name(buf, name) == [buf EXCEPT !.rev_buf = @ \o Reverse(name)]

BufOk(buf) == [kind |-> "Ok", buf |-> buf]

BufPanic == [kind |-> "Panic"]

\* LongFilenameBuf::next, the branch of an is-last fragment after the trimming
next_is_last(buf, name, dir_entry) ==
    BufOk([extend_name(buf, name) EXCEPT !.checksum = {dir_entry.checksum},
                                         !.last_ordinal = {dir_entry.ordinal}])

\* LongFilenameBuf::next. last_ordinal - 1 is a u8 subtraction: with last_ordinal 0 it
\* panics in a build with overflow checks and wraps to 255 without them
LongFilenameBuf_next(buf, dir_entry, overflow_checks) ==
    IF dir_entry.is_last
    THEN IF dir_entry.ordinal > 20 THEN DirErr("can't have more than 20 long filename dir entries")
         ELSE LET trimmed == trim_padding(dir_entry.name)
                  terminated == trimmed # <<>> /\ trimmed[Len(trimmed)] = 0
                  name == IF terminated THEN SubSeq(trimmed, 1, Len(trimmed) - 1) ELSE trimmed
              IN  IF ~terminated /\ Len(trimmed) # 13 THEN BufPanic
                  ELSE IF name = <<>> THEN BufPanic
                  ELSE next_is_last(buf, name, dir_entry)
    ELSE IF buf.checksum = {} \/ buf.last_ordinal = {} THEN BufPanic
    ELSE IF buf.checksum # {dir_entry.checksum} THEN DirErr("checksum doesn't match previous")
    ELSE IF Unwrap(buf.last_ordinal) = 1 THEN DirErr("last ordinal was 1, but found more entries")
    ELSE IF Unwrap(buf.last_ordinal) = 0 /\ overflow_checks THEN BufPanic
    ELSE IF (Unwrap(buf.last_ordinal) + 256 - 1) % 256 # dir_entry.ordinal
         THEN DirErr("expected ordinal")
    ELSE BufOk([extend_name(buf, dir_entry.name) EXCEPT !.last_ordinal = {dir_entry.ordinal}])

\* LongFilenameBuf::get_buf
get_buf(buf, sum) ==
    IF buf.checksum = {} THEN [kind |-> "None"]
    ELSE IF buf.last_ordinal = {} THEN DirErr("long filename buffer is empty")
    ELSE IF Unwrap(buf.last_ordinal) # 1 THEN DirErr("last ordinal is not 1")
    ELSE IF Unwrap(buf.checksum) # sum THEN DirErr("given checksum doesn't match previous checksum")
    ELSE IF Len(buf.rev_buf) > 255 THEN DirErr("long filename too long")
    ELSE [kind |-> "Some", units |-> Reverse(buf.rev_buf)]

\* char::decode_utf16(iter).filter_map(|x| x.ok()): the code points of the units, a
\* surrogate without its partner dropped
RECURSIVE decode_utf16(_)
decode_utf16(units) ==
    IF units = <<>> THEN <<>>
    ELSE IF units[1] < 55296 \/ units[1] > 57343 THEN <<units[1]>> \o decode_utf16(Tail(units))
    ELSE IF units[1] <= 56319 /\ Len(units) >= 2 /\ units[2] >= 56320 /\ units[2] <= 57343
         THEN <<65536 + (units[1] - 55296) * 1024 + (units[2] - 56320)>>
                  \o decode_utf16(Tail(Tail(units)))
    ELSE decode_utf16(Tail(units))

\* the outcome of a call on the iterator it: iter is the iterator after it
Outcome(kind, iter, entry) == [kind |-> kind, iter |-> iter, entry |-> entry]

NoEntry == [slot |-> 0]

\* the line Iterator::next prints for an error, with the slot it came from and the
\* buffer the iterator is left with
Printed(iter, what, buf) ==
    [iter EXCEPT !.buf = buf,
                 !.printed = @ \o <<[slot |-> iter.pos - 1, what |-> what, buf |-> buf]>>]

\* DirIter::next_impl, on the slots sl of the reader. The iterator holds the number of
\* the slot it reads next, the buffer and what has been printed
RECURSIVE next_impl(_, _, _)
next_impl(sl, iter, overflow_checks) ==
    IF iter.pos > Len(sl) THEN Outcome("None", iter, NoEntry)
    ELSE LET chunk == sl[iter.pos]
             read == [iter EXCEPT !.pos = @ + 1]
             dir_entry == DirEntryWrapper_load(chunk)
         IN  CASE dir_entry.kind = "Panic" -> Outcome("Panic", read, NoEntry)
               [] dir_entry.kind = "Err" ->
                    Outcome("Err", Printed(read, dir_entry.what, read.buf), NoEntry)
               [] dir_entry.kind = "LongName" ->
                    (LET r == LongFilenameBuf_next(read.buf, dir_entry, overflow_checks) IN
                     CASE r.kind = "Panic" -> Outcome("Panic", read, NoEntry)
                       [] r.kind = "Err" ->
                            Outcome("Err", Printed(read, r.what, reset(read.buf)), NoEntry)
                       [] r.kind = "Ok" ->
                            next_impl(sl, [read EXCEPT !.buf = r.buf], overflow_checks))
               [] dir_entry.kind = "Regular" ->
                    IF is_sentinel(dir_entry) THEN Outcome("None", read, NoEntry)
                    ELSE IF is_empty(dir_entry) THEN next_impl(sl, read, overflow_checks)
                    ELSE LET g == get_buf(read.buf, dir_entry.checksum) IN
                         CASE g.kind = "Err" ->
                                Outcome("Err", Printed(read, g.what, read.buf), NoEntry)
                           [] g.kind = "Some" ->
                                Outcome("Some", [read EXCEPT !.buf = reset(read.buf)],
                                        [dir_entry EXCEPT !.long_name = {decode_utf16(g.units)}])
                           [] g.kind = "None" ->
                                Outcome("Some", [read EXCEPT !.buf = reset(read.buf)], dir_entry)

\* Iterator::next for DirIter: an error is printed and the next slot tried
RECURSIVE DirIter_next(_, _, _)
DirIter_next(sl, iter, overflow_checks) ==
    LET r == next_impl(sl, iter, overflow_checks) IN
    IF r.kind = "Err" THEN DirIter_next(sl, r.iter, overflow_checks) ELSE r

(***************************************************************************)
(* A directory stream of slots and the calls of next on a DirIter over it. *)
(***************************************************************************)
MaxSlots == 4

Zeros(n) == [i \in 1..n |-> 0]

\* a short-entry slot: the 11 bytes of the name, the attributes, times and sizes of zero
ShortSlot(name, attr) == name \o <<attr>> \o Zeros(20)

RECURSIVE UnitBytes(_)
UnitBytes(units) ==
    IF units = <<>> THEN <<>>
    ELSE <<Head(units) % 256, Head(units) \div 256>> \o UnitBytes(Tail(units))

\* a long-name slot: ordinal byte, 5 units, attribute, type, checksum, 6 units,
\* first cluster, 2 units
LfnSlot(first_byte, units, sum) ==
    <<first_byte>> \o UnitBytes(SubSeq(units, 1, 5)) \o <<LongName, 0, sum>>
        \o UnitBytes(SubSeq(units, 6, 11)) \o <<0, 0>> \o UnitBytes(SubSeq(units, 12, 13))

\* "FILE    TXT" and "OTHER   TXT"
FileTxtName == <<70, 73, 76, 69, 32, 32, 32, 32, 84, 88, 84>>

OtherTxtName == <<79, 84, 72, 69, 82, 32, 32, 32, 84, 88, 84>>

\* "hello-world.txt" in two fragments: "hello-world.t", and "xt" with its terminator
\* and padding
HelloHead == <<104, 101, 108, 108, 111, 45, 119, 111, 114, 108, 100, 46, 116>>

HelloTail == <<120, 116, 0>> \o [i \in 1..10 |-> 65535]

FileTxt == ShortSlot(FileTxtName, 32)

OtherTxt == ShortSlot(OtherTxtName, 32)

Sentinel == Zeros(32)

\* first byte 0x00 on a slot whose attributes have Hidden set
HiddenSentinel == ShortSlot(<<0>> \o Tail(FileTxtName), 32 + Hidden)

\* first byte 0xE5 and the remainder of a valid entry
Deleted == ShortSlot(<<229>> \o Tail(FileTxtName), 32)

Lfn2Last == LfnSlot(64 + 2, HelloTail, checksum(FileTxtName))

Lfn1 == LfnSlot(1, HelloHead, checksum(FileTxtName))

\* the fragment of ordinal 1 with another checksum than its run
Lfn1Bad == LfnSlot(1, HelloHead, (checksum(FileTxtName) + 1) % 256)

Catalogue == {FileTxt, OtherTxt, Sentinel, HiddenSentinel, Deleted, Lfn2Last, Lfn1, Lfn1Bad}

SlotStreams == UNION {[1..n -> Catalogue] : n \in 0..MaxSlots}

InitDir ==
    /\ slots \in SlotStreams
    /\ dir_iter = [pos |-> 1, buf |-> EmptyBuf, printed |-> <<>>, status |-> "open"]
    /\ emitted = <<>>
    /\ FatIdle /\ BpbIdle /\ ChainIdle /\ MoreIdle

\* one call of next on the iterator, by a caller that stops at the first None
DirNext ==
    /\ dir_iter.status = "open"
    /\ \E overflow_checks \in BOOLEAN :
         LET r == DirIter_next(slots, dir_iter, overflow_checks) IN
         /\ dir_iter' = [r.iter EXCEPT !.status = CASE r.kind = "Some" -> "open"
                                                    [] r.kind = "None" -> "done"
                                                    [] r.kind = "Panic" -> "panicked"]
         /\ emitted' = IF r.kind = "Some"
                       THEN Append(emitted, [slot |-> r.iter.pos - 1, entry |-> r.entry])
                       ELSE emitted
    /\ UNCHANGED <<slots, fat_vars, bpb_vars, chain_vars, more_vars>>

NextDir == DirNext

SpecDir == InitDir /\ [][NextDir]_vars

(***************************************************************************)
(* Directory streams of long-name fragments that do not form a run: runs   *)
(* that are abandoned, and fragments the assertions of LongFilenameBuf     *)
(* are about.                                                              *)
(***************************************************************************)
\* an is-last fragment of another entry: "a", with the checksum of "OTHER   TXT"
Lfn2LastOther == LfnSlot(64 + 2, <<97, 0>> \o [i \in 1..11 |-> 65535], checksum(OtherTxtName))

\* an is-last fragment of two units without terminator
LfnLastShort == LfnSlot(64 + 1, <<120, 116>> \o [i \in 1..11 |-> 65535], checksum(FileTxtName))

\* an is-last fragment whose 13 units are padding
LfnLastPadding == LfnSlot(64 + 1, [i \in 1..13 |-> 65535], checksum(FileTxtName))

\* an is-last fragment with ordinal 0
LfnLastZero == LfnSlot(64, HelloTail, checksum(FileTxtName))

FragmentCatalogue ==
    {FileTxt, Lfn2Last, Lfn1, Lfn2LastOther, LfnLastShort, LfnLastPadding, LfnLastZero}

InitLfn ==
    /\ slots \in UNION {[1..n -> FragmentCatalogue] : n \in 0..MaxSlots}
    /\ dir_iter = [pos |-> 1, buf |-> EmptyBuf, printed |-> <<>>, status |-> "open"]
    /\ emitted = <<>>
    /\ FatIdle /\ BpbIdle /\ ChainIdle /\ MoreIdle

SpecLfn == InitLfn /\ [][NextDir]_vars

(***************************************************************************)
(* dir.rs: the name and the kind of a loaded entry. A string is the        *)
(* sequence of the codes of its characters.                                *)
(***************************************************************************)
System == 4

\* Attr::intersects for a flag of one bit is Attr::contains
is_dir(e) == HasBit(e.attr, Directory) /\ ~(HasBit(e.attr, System) \/ HasBit(e.attr, VolumeId))

\* &self.name[1..] is a slice of 12 bytes and &self.name[2..] one of 11: a slice and an
\* array are equal when they have the same length and elements
is_dot(e) == is_dir(e) /\ e.name[1] = 46 /\ SubSeq(e.name, 2, 13) = [i \in 1..10 |-> 32]

is_dotdot(e) ==
    is_dir(e) /\ SubSeq(e.name, 1, 2) = <<46, 46>> /\ SubSeq(e.name, 3, 13) = [i \in 1..9 |-> 32]

is_hidden(e) == is_dot(e) \/ is_dotdot(e) \/ HasBit(e.attr, Hidden)

\* u8::is_ascii_whitespace: space, tab, line feed, form feed, carriage return
is_ascii_whitespace(c) == c \in {32, 9, 10, 12, 13}

RECURSIVE trim_ascii_end(_)
trim_ascii_end(bytes) ==
    IF bytes # <<>> /\ is_ascii_whitespace(bytes[Len(bytes)])
    THEN trim_ascii_end(SubSeq(bytes, 1, Len(bytes) - 1))
    ELSE bytes

\* $ % ' - _ @ ~ ` ! ( ) { } ^ # &
VALID_SYMBOLS == {36, 37, 39, 45, 95, 64, 126, 96, 33, 40, 41, 123, 125, 94, 35, 38}

is_ascii_alphanumeric(c) == c \in (48..57) \cup (65..90) \cup (97..122)

map_chars(c) ==
    IF c >= 128 \/ c < 32 \/ ~(is_ascii_alphanumeric(c) \/ c \in VALID_SYMBOLS) THEN 63 ELSE c

MapChars(bytes) == [i \in 1..Len(bytes) |-> map_chars(bytes[i])]

\* DirEntry::name_string: name and ext are the first 8 and the last 5 of the 13 bytes
\* load_name built
name_string(e) ==
    IF is_empty(e) THEN [kind |-> "Panic"]
    ELSE IF e.long_name # {} THEN [kind |-> "Ok", s |-> Unwrap(e.long_name)]
    ELSE LET name == SubSeq(e.name, 1, 8)
             ext == SubSeq(e.name, 9, 13)
         IN  [kind |-> "Ok",
              s |-> (IF HasBit(e.attr, Hidden) THEN <<46>> ELSE <<>>)
                    \o MapChars(trim_ascii_end(name))
                    \o (IF ext # <<>> THEN <<46>> \o MapChars(trim_ascii_end(ext)) ELSE <<>>)]

(***************************************************************************)
(* datetime.rs: the packed Date and Time. A u16 is an integer 0..65535.    *)
(***************************************************************************)
\* x << n on a u16
u16_shl(x, n) == (x * 2^n) % Half

StampErr(what) == [kind |-> "Err", what |-> what]

\* Date::from_day_month_year
Date_from_day_month_year(day, month, year) ==
    IF day > 31 THEN StampErr("invalid day")
    ELSE IF month > 12 THEN StampErr("invalid month")
    ELSE IF ~(1980 <= year /\ year <= 2107) THEN StampErr("invalid year")
    ELSE [kind |-> "Ok",
          repr |-> BitOr(BitOr(day, u16_shl(month, 4)), u16_shl(year - 1980, 8))]

\* Date::day: (self.repr & 0x1F) as u8
Date_day(repr) == repr % 32

\* Date::month: ((self.repr & 0x1E0) >> 5) as u8
Date_month(repr) == (repr \div 32) % 16

\* Date::year: ((self.repr & 0xFE00) >> 9) as u16 + 1980
Date_year(repr) == ((repr \div 512) % 128) + 1980

\* Time::from_seconds_minutes_hours
Time_from_seconds_minutes_hours(seconds, minutes, hours) ==
    IF ~(seconds <= 58 /\ seconds % 2 = 0) THEN StampErr("invalid seconds")
    ELSE IF minutes > 59 THEN StampErr("invalid minutes")
    ELSE IF hours > 23 THEN StampErr("invalid hours")
    ELSE [kind |-> "Ok",
          repr |-> BitOr(BitOr(seconds \div 2, u16_shl(minutes, 5)), u16_shl(hours, 11))]

\* Time::second: 2 * (self.repr & 0x1F) as u8
Time_second(repr) == 2 * (repr % 32)

\* Time::minute: ((self.repr >> 5) & 0x3F) as u8
Time_minute(repr) == (repr \div 32) % 64

\* Time::hour: ((self.repr >> 11) & 0x1F) as u8
Time_hour(repr) == (repr \div 2048) % 32

(***************************************************************************)
(* datetime.rs, dir.rs, inode.rs: the calendar values of the timestamps of *)
(* an entry. An Option is the set of its values.                           *)
(***************************************************************************)
is_leap_year(year) == year % 4 = 0 /\ (year % 100 # 0 \/ year % 400 = 0)

days_in_month(year, month) ==
    CASE month \in {4, 6, 9, 11} -> 30
      [] month = 2 -> IF is_leap_year(year) THEN 29 ELSE 28
      [] OTHER -> 31

\* chrono's NaiveDate::from_ymd_opt: None unless the day exists in the calendar
NaiveDate_from_ymd_opt(year, month, day) ==
    IF month \in 1..12 /\ day >= 1 /\ day <= days_in_month(year, month)
    THEN {[year |-> year, month |-> month, day |-> day]}
    ELSE {}

\* chrono's NaiveTime::from_hms_opt
NaiveTime_from_hms_opt(hour, min, sec) ==
    IF hour < 24 /\ min < 60 /\ sec < 60
    THEN {[hour |-> hour, minute |-> min, second |-> sec, milli |-> 0]}
    ELSE {}

\* Date::to_naive_date and Time::to_naive_time before their unwrap
to_naive_date(repr) == NaiveDate_from_ymd_opt(Date_year(repr), Date_month(repr), Date_day(repr))

to_naive_time(repr) ==
    NaiveTime_from_hms_opt(Time_hour(repr), Time_minute(repr), Time_second(repr))

\* NaiveDateTime::new of the unwrapped date and time: a None panics
naive_date_time(date, time) ==
    IF date = {} \/ time = {} THEN [kind |-> "Panic"]
    ELSE [kind |-> "Ok", date |-> Unwrap(date), time |-> Unwrap(time)]

MillisPerDay == 86400000

\* the milliseconds since midnight of a NaiveTime, and the NaiveTime of them
time_to_millis(t) == ((t.hour * 60 + t.minute) * 60 + t.second) * 1000 + t.milli

time_of_millis(ms) ==
    [hour |-> ms \div 3600000, minute |-> (ms \div 60000) % 60,
     second |-> (ms \div 1000) % 60, milli |-> ms % 1000]

\* chrono's NaiveTime::overflowing_add_signed(..).0 of a delta of ms milliseconds: the
\* time of day wraps at midnight
overflowing_add_millis(t, ms) == time_of_millis((time_to_millis(t) + ms) % MillisPerDay)

\* DirEntry::create_time: the two unwraps, then 100 * create_time_tenths milliseconds
\* are added to the time, and the date stays
DirEntry_create_time(e) ==
    IF to_naive_date(e.create_date) = {} \/ to_naive_time(e.create_time) = {}
    THEN [kind |-> "Panic"]
    ELSE naive_date_time(to_naive_date(e.create_date),
                         {overflowing_add_millis(Unwrap(to_naive_time(e.create_time)),
                                                 100 * e.create_time_tenths)})

\* DirEntry::write_time
DirEntry_write_time(e) == naive_date_time(to_naive_date(e.write_date), to_naive_time(e.write_time))

\* DirEntry::last_access_date, at midnight
DirEntry_last_access_date(e) ==
    naive_date_time(to_naive_date(e.last_access_date), NaiveTime_from_hms_opt(0, 0, 0))

is_file(e) == ~(HasBit(e.attr, Directory) \/ HasBit(e.attr, System) \/ HasBit(e.attr, VolumeId))

\* Inode::new: the assertion on the kind of the entry, then atime, mtime and crtime
Inode_new(e) ==
    IF ~(is_file(e) \/ is_dir(e)) THEN [kind |-> "Panic"]
    ELSE IF DirEntry_last_access_date(e).kind = "Panic" THEN [kind |-> "Panic"]
    ELSE IF DirEntry_write_time(e).kind = "Panic" THEN [kind |-> "Panic"]
    ELSE IF DirEntry_create_time(e).kind = "Panic" THEN [kind |-> "Panic"]
    ELSE [kind |-> IF is_dir(e) THEN "Dir" ELSE "File",
          size |-> U32ToNat(e.file_size),
          first_cluster |-> e.first_cluster,
          read_only |-> HasBit(e.attr, 1)]

(***************************************************************************)
(* A short-entry slot, DirEntry::load on it, and the questions a caller    *)
(* asks of the entry.                                                      *)
(***************************************************************************)
Spaces(n) == [i \in 1..n |-> 32]

\* a short-entry slot with the tenths in DIR_CrtTimeTenth, the time in DIR_CrtTime and DIR_WrtTime and the date in
\* DIR_CrtDate, DIR_LstAccDate and DIR_WrtDate
StampedSlot(name, attr, tenths, time, date) ==
    name \o <<attr, 0, tenths>> \o u16_to_le_bytes(time) \o u16_to_le_bytes(date)
        \o u16_to_le_bytes(date) \o <<0, 0>> \o u16_to_le_bytes(time) \o u16_to_le_bytes(date)
        \o Zeros(6)

\* the date bits 0 (day 0 of month 0), 1980-01-01, 1980-02-29, 1980-02-31, 1981-02-29 and
\* a month of 13
SlotDates == {0, 33, 93, 95, 605, 417}

\* the values of DIR_CrtTimeTenth: 0, one second, the largest that loads, and one more
SlotTenths == {0, 10, 199, 200}

\* the time bits 00:00:00, 23:59:58, 24:00:00, 00:60:00 and 00:00:60
SlotTimes == {0, 49021, 49152, 1920, 30}

\* "FILE    TXT", "README     ", ".          ", "..         ", "file    txt",
\* "FI+E    T T", a stem of 8 bytes, bytes >= 128, and the first bytes 0xE5 and 0x00
EntryNames ==
    {FileTxtName,
     <<82, 69, 65, 68, 77, 69>> \o Spaces(5),
     <<46>> \o Spaces(10),
     <<46, 46>> \o Spaces(9),
     <<102, 105, 108, 101>> \o Spaces(4) \o <<116, 120, 116>>,
     <<70, 73, 43, 69>> \o Spaces(4) \o <<84, 32, 84>>,
     <<65, 66, 67, 68, 69, 70, 71, 72, 84, 88, 84>>,
     <<70, 196, 76, 69>> \o Spaces(4) \o <<84, 88, 200>>,
     <<229>> \o Tail(FileTxtName),
     <<0>> \o Tail(FileTxtName)}

\* none, Hidden, VolumeId, Hidden and VolumeId, Directory, Directory and Hidden, Archive,
\* Archive and Hidden, Directory and System
EntryAttrs == {0, Hidden, VolumeId, Hidden + VolumeId, Directory, Directory + Hidden, 32,
               32 + Hidden, Directory + System}

InitEntry ==
    /\ \E name \in EntryNames : \E attr \in EntryAttrs :
       \E tenths \in SlotTenths : \E time \in SlotTimes : \E date \in SlotDates :
         raw_slot = StampedSlot(name, attr, tenths, time, date)
    /\ loaded_entry = Idle
    /\ entry_view = Idle
    /\ FatIdle /\ BpbIdle /\ ChainIdle /\ DirIdle /\ TableIdle /\ TimeIdle /\ FuseIdle

EntryLoad ==
    /\ loaded_entry = Idle
    /\ loaded_entry' = DirEntry_load(raw_slot)
    /\ UNCHANGED <<raw_slot, entry_view, fat_vars, bpb_vars, chain_vars, dir_vars, table_vars, time_vars, fuse_vars>>

\* Display for DirEntry and tree_impl: the name and the kind of the entry; Inode::new for
\* an entry a DirIter emits
EntryView ==
    /\ loaded_entry # Idle /\ loaded_entry.kind = "Regular"
    /\ entry_view = Idle
    /\ entry_view' = [name_string |-> name_string(loaded_entry),
                      is_dot |-> is_dot(loaded_entry),
                      is_dotdot |-> is_dotdot(loaded_entry),
                      is_hidden |-> is_hidden(loaded_entry),
                      create_time |-> IF is_empty(loaded_entry) THEN [kind |-> "none"]
                                      ELSE DirEntry_create_time(loaded_entry),
                      inode |-> IF is_empty(loaded_entry) THEN [kind |-> "none"]
                                ELSE Inode_new(loaded_entry)]
    /\ UNCHANGED <<raw_slot, loaded_entry, fat_vars, bpb_vars, chain_vars, dir_vars, table_vars, time_vars, fuse_vars>>

NextEntry == EntryLoad \/ EntryView

SpecEntry == InitEntry /\ [][NextEntry]_vars

(***************************************************************************)
(* A date and a time of day, the Date and the Time built of them, and the  *)
(* fields read back.                                                       *)
(***************************************************************************)
Stamps ==
    [day : {0, 1, 16, 31}, month : {0, 1, 12}, year : {1980, 2000, 2107},
     seconds : {0, 1, 58, 59}, minutes : {0, 59}, hours : {0, 23}]

InitStamp ==
    /\ stamp \in Stamps
    /\ packed = Idle
    /\ unpacked = Idle
    /\ FatIdle /\ BpbIdle /\ ChainIdle /\ DirIdle /\ TableIdle /\ EntryIdle /\ FuseIdle

StampPack ==
    /\ packed = Idle
    /\ packed' = [date |-> Date_from_day_month_year(stamp.day, stamp.month, stamp.year),
                  time |-> Time_from_seconds_minutes_hours(stamp.seconds, stamp.minutes,
                                                           stamp.hours)]
    /\ UNCHANGED <<stamp, unpacked, fat_vars, bpb_vars, chain_vars, dir_vars, table_vars,
                   entry_vars, fuse_vars>>

StampUnpack ==
    /\ packed # Idle /\ unpacked = Idle
    /\ packed.date.kind = "Ok" /\ packed.time.kind = "Ok"
    /\ unpacked' = [day |-> Date_day(packed.date.repr),
                    month |-> Date_month(packed.date.repr),
                    year |-> Date_year(packed.date.repr),
                    seconds |-> Time_second(packed.time.repr),
                    minutes |-> Time_minute(packed.time.repr),
                    hours |-> Time_hour(packed.time.repr)]
    /\ UNCHANGED <<stamp, packed, fat_vars, bpb_vars, chain_vars, dir_vars, table_vars,
                   entry_vars, fuse_vars>>

NextStamp == StampPack \/ StampUnpack

SpecStamp == InitStamp /\ [][NextStamp]_vars

(***************************************************************************)
(* fuse.rs, inode.rs: the read handler of the FUSE file system. Offsets,   *)
(* sizes and the size of the file are counted in the blocks of the chain   *)
(* streams.                                                                *)
(***************************************************************************)
FuseError(errno) == [kind |-> "error", errno |-> errno, data |-> <<>>]

FuseData(bytes) == [kind |-> "data", errno |-> "", data |-> bytes]

FusePanic == [kind |-> "panic", errno |-> "", data |-> <<>>]

\* a read that does not truncate the size of the request
uncapped_size(file_size, offset, size) == size

\* the size of the request after "if offset + size as u64 > file_size"
capped_size(file_size, offset, size) ==
    IF offset + size > file_size THEN file_size - offset ELSE size

\* Inode::file_reader, then FatFs::file_reader with its assertion first_cluster >= 2
Inode_file_reader(f, node, overflow_checks) ==
    IF node.kind = "Dir" THEN [kind |-> "Err"]
    ELSE IF U32Lt(node.first_cluster, U32(2)) THEN Panicked
    ELSE chain_new("reader", f, node.first_cluster, overflow_checks)

\* Filesystem::read. fh_known: the handle is bound to an inode of the table;
\* ino_matches: that inode is the one of the request
fuse_read(f, d, node, fh_known, ino_matches, offset, size, overflow_checks) ==
    IF offset < 0 THEN FuseError("EINVAL")
    ELSE IF ~fh_known THEN FuseError("EBADF")
    ELSE IF ~ino_matches THEN FuseError("EINVAL")
    ELSE IF node.kind # "File" THEN FuseError("EISDIR")
    ELSE IF offset > node.size THEN FuseData(<<>>)
    ELSE LET reader == Inode_file_reader(f, node, overflow_checks) IN
         IF reader.kind = "Err" THEN FuseError("EISDIR")
         ELSE IF reader = Panicked THEN FusePanic
         ELSE LET skipped == chain_skip(f, reader, offset, overflow_checks) IN
              IF skipped.s = Hung THEN [kind |-> "hung", errno |-> "", data |-> <<>>]
              ELSE IF skipped.ret # offset THEN FuseError("EIO")
              ELSE FuseData(chain_read(f, d, skipped.s,
                                       capped_size(node.size, offset, size), overflow_checks).bytes)

\* Inode::file_writer, then FatFs::file_writer with its assertion first_cluster >= 2
Inode_file_writer(f, node, overflow_checks) ==
    IF node.kind = "Dir" THEN [kind |-> "Err"]
    ELSE IF U32Lt(node.first_cluster, U32(2)) THEN Panicked
    ELSE chain_new("writer", f, node.first_cluster, overflow_checks)

\* Write::write_all on a ClusterChainWriter: write until the buffer is empty, and
\* ErrorKind::WriteZero when a write accepts nothing
RECURSIVE write_all(_, _, _, _, _)
write_all(f, d, s, buf, overflow_checks) ==
    IF buf = <<>> THEN [kind |-> "Ok", s |-> s, disk |-> d]
    ELSE LET r == chain_write(f, d, s, buf, overflow_checks) IN
         IF r.ret = 0 THEN [kind |-> "WriteZero", s |-> r.s, disk |-> r.disk]
         ELSE write_all(f, r.disk, r.s, SubSeq(buf, r.ret + 1, Len(buf)), overflow_checks)

\* DirEntry::update_file_size and DirEntry::update: the size field of the record at
\* the position the entry was loaded from becomes new_size
DirEntry_update_file_size(entry, new_size) == new_size

\* Inode::update_size. entry_found: the directory of the parent lists an entry with
\* the first cluster of the inode
update_size(node, entry, entry_found, new_size) ==
    IF ~entry_found THEN [kind |-> "Err", size |-> node.size, entry_size |-> entry]
    ELSE [kind |-> "Ok", size |-> new_size,
          entry_size |-> DirEntry_update_file_size(entry, new_size)]

\* what a write request leaves: the reply, the backend, Inode.size and the size field
\* of the entry
FuseWriteError(errno, d, node, entry) ==
    [kind |-> "error", errno |-> errno, written |-> 0, disk |-> d, size |-> node.size,
     entry_size |-> entry]

FuseWritten(n, d, size, entry) ==
    [kind |-> "written", errno |-> "", written |-> n, disk |-> d, size |-> size,
     entry_size |-> entry]

\* Filesystem::write, after inode.update_size: sized is what it left
write_resized(d, node, entry, bytes_written, sized) ==
    IF sized.kind = "Err" THEN FuseWriteError("EIO", d, node, entry)
    ELSE FuseWritten(bytes_written, d, sized.size, sized.entry_size)

\* Filesystem::write, from the comparison with inode.size() on: bytes_written bytes
\* have been handed to write_all, which left the backend d
write_sized(d, node, entry, entry_found, offset, bytes_written) ==
    IF offset + bytes_written > node.size
    THEN write_resized(d, node, entry, bytes_written,
                       update_size(node, entry, entry_found, offset + bytes_written))
    ELSE FuseWritten(bytes_written, d, node.size, entry)

\* Filesystem::write, after write_all(&data): wrote is what it left
write_sized_or_eio(node, entry, entry_found, offset, bytes_written, wrote) ==
    IF wrote.kind # "Ok" THEN FuseWriteError("EIO", wrote.disk, node, entry)
    ELSE write_sized(wrote.disk, node, entry, entry_found, offset, bytes_written)

\* Filesystem::write, from write_all(&data) on: filled is what write_all(&zeros) left
write_data(f, node, entry, entry_found, offset, data, zeros_len, filled, overflow_checks) ==
    IF filled.kind # "Ok" THEN FuseWriteError("EIO", filled.disk, node, entry)
    ELSE write_sized_or_eio(node, entry, entry_found, offset, zeros_len + Len(data),
                            write_all(f, filled.disk, filled.s, data, overflow_checks))

\* Filesystem::write, from writer.skip(offset) on
write_skipped(f, d, node, entry, entry_found, offset, data, skipped, overflow_checks) ==
    IF skipped.s = Hung
    THEN [FuseWriteError("", d, node, entry) EXCEPT !.kind = "hung"]
    ELSE write_data(f, node, entry, entry_found, offset, data, offset - skipped.ret,
                    write_all(f, d, skipped.s, [i \in 1..(offset - skipped.ret) |-> 0], overflow_checks), overflow_checks)

\* Filesystem::write, from inode.file_writer on
write_opened(f, d, node, entry, entry_found, offset, data, writer, overflow_checks) ==
    IF writer.kind = "Err" THEN FuseWriteError("EISDIR", d, node, entry)
    ELSE IF writer = Panicked
    THEN [FuseWriteError("", d, node, entry) EXCEPT !.kind = "panic"]
    ELSE write_skipped(f, d, node, entry, entry_found, offset, data,
                       chain_skip(f, writer, offset, overflow_checks), overflow_checks)

\* Filesystem::write
fuse_write(f, d, node, entry, fh_known, ino_matches, entry_found, offset, data, overflow_checks) ==
    IF offset < 0 THEN FuseWriteError("EINVAL", d, node, entry)
    ELSE IF ~fh_known THEN FuseWriteError("EBADF", d, node, entry)
    ELSE IF node.read_only THEN FuseWriteError("EBADF", d, node, entry)
    ELSE IF ~ino_matches THEN FuseWriteError("EINVAL", d, node, entry)
    ELSE IF node.kind # "File" THEN FuseWriteError("EISDIR", d, node, entry)
    ELSE write_opened(f, d, node, entry, entry_found, offset, data,
                      Inode_file_writer(f, node, overflow_checks), overflow_checks)

(***************************************************************************)
(* A volume, the inode of one of its entries, and one read or write        *)
(* request on it.                                                          *)
(***************************************************************************)
\* Inode.size is the file_size of the directory entry: nothing ties it to the length
\* of the chain of first_cluster
FileSizes == 0..((MaxCluster - 1) * BytesPerCluster + 1)

\* the volume of the requests is of the smallest variant (the walks of the chains of
\* every variant are those of SpecChain), and a file has no cluster or starts at the
\* first cluster of the data region, its chain leading anywhere from there
FuseFatTypes == {"Fat12"}

FuseFirstClusters == {U32(0), U32(2)}

InitFuse ==
    /\ \E ft \in FuseFatTypes :
         LET f0 == [fat_type |-> ft, max |-> ChainMax(ft), next_sectors |-> EmptyTable] IN
         \E t \in [ChainClusters -> ChainEntries(f0)] :
           fat = [f0 EXCEPT !.next_sectors = t]
    /\ disk = [o \in DataOffset .. (DataOffset + (MaxCluster - 1) * BytesPerCluster - 1) |-> o]
    /\ \E kind \in {"File", "Dir"} : \E size \in FileSizes :
       \E c \in FuseFirstClusters :
       \E read_only \in BOOLEAN :
         /\ inode = [kind |-> kind, size |-> IF kind = "Dir" THEN 0 ELSE size,
                     first_cluster |-> c, read_only |-> read_only]
         /\ entry_size = inode.size
    /\ reply = Idle
    /\ cluster = Idle /\ next_result = Idle
    /\ stream = Idle /\ first = Idle /\ rd_out = Idle /\ wr_in = Idle /\ last_op = Idle
    /\ BpbIdle /\ DirIdle /\ TableIdle /\ EntryIdle /\ TimeIdle

\* the file handle of a request: known and of the inode of the request, known and of
\* another inode, or unknown (get_inode_by_fh finds no inode to compare then)
Handles ==
    {[fh_known |-> TRUE, ino_matches |-> TRUE],
     [fh_known |-> TRUE, ino_matches |-> FALSE],
     [fh_known |-> FALSE, ino_matches |-> FALSE]}

\* one read request: the handler keeps nothing of it in the inode or on the volume
FuseRead ==
    /\ reply = Idle
    /\ \E overflow_checks \in Builds(fat) :
       \E h \in Handles : \E offset \in (-1)..MaxSkip : \E size \in 0..MaxBuf :
         reply' = [op |-> "read", offset |-> offset, size |-> size]
                  @@ fuse_read(fat, disk, inode, h.fh_known, h.ino_matches, offset, size, overflow_checks)
    /\ UNCHANGED <<fat, cluster, next_result, disk, stream, first, rd_out, wr_in, last_op,
                   inode, entry_size, bpb_vars, dir_vars, table_vars, entry_vars, time_vars>>

\* one write request of the bytes 101, 102, ...; the reply keeps the size and the
\* backend the request met
FuseWrite ==
    /\ reply = Idle
    /\ \E overflow_checks \in Builds(fat) :
       \E h \in Handles : \E entry_found \in (IF h.fh_known /\ h.ino_matches THEN BOOLEAN ELSE {TRUE}) :
       \E offset \in (-1)..MaxSkip : \E len \in 0..MaxBuf :
         LET w == fuse_write(fat, disk, inode, entry_size, h.fh_known, h.ino_matches, entry_found,
                             offset, WriteBuf(0, len), overflow_checks)
         IN  /\ reply' = [op |-> "write", offset |-> offset, size |-> len, kind |-> w.kind,
                          errno |-> w.errno, written |-> w.written,
                          pre_size |-> inode.size, pre_disk |-> disk]
             /\ disk' = w.disk
             /\ inode' = [inode EXCEPT !.size = w.size]
             /\ entry_size' = w.entry_size
    /\ UNCHANGED <<fat, cluster, next_result, stream, first, rd_out, wr_in, last_op,
                   bpb_vars, dir_vars, table_vars, entry_vars, time_vars>>

NextFuse == FuseRead \/ FuseWrite

SpecFuse == InitFuse /\ [][NextFuse]_vars

\* the argument indexes an entry of the table and is none of the rejected arguments
HoldsEntry(f, c) == c # U32(0) /\ U32Le(c, f.max)

IsEndOfChain(f, e) == e = eof_cluster(f) \/ Contains(reserved_eof_clusters(f), e)

\* the EOF marker and the reserved-EOF band of each variant as the FAT specification gives them
DocEofCluster(ft) ==
    CASE ft = "Fat12" -> U32Hex(0, 4095)
      [] ft = "Fat16" -> U32Hex(0, 65535)
      [] ft = "Fat32" -> U32Hex(4095, 65535)

DocReservedEof(ft) ==
    CASE ft = "Fat12" -> Range(U32Hex(0, 4088), U32Hex(0, 4094))
      [] ft = "Fat16" -> Range(U32Hex(0, 65528), U32Hex(0, 65534))
      [] ft = "Fat32" -> Range(U32Hex(4095, 65528), U32Hex(4095, 65534))

\* an entry that ends a chain: by the code's markers or by those of the specification
EndsChain(f, e) ==
    \/ IsEndOfChain(f, e)
    \/ e = DocEofCluster(f.fat_type)
    \/ Contains(DocReservedEof(f.fat_type), e)

\* the clusters of the chain that starts at c, following the links of the table; ok when
\* the walk stays on valid clusters, meets none twice and ends at an end-of-chain entry
RECURSIVE WalkChain(_, _, _)
WalkChain(f, c, seen) ==
    IF ~Contains(valid_clusters(f), c) \/ c \in seen THEN [clusters |-> <<>>, ok |-> FALSE]
    ELSE IF EndsChain(f, get_entry(f, c)) THEN [clusters |-> <<c>>, ok |-> TRUE]
    ELSE LET rest == WalkChain(f, get_entry(f, c), seen \cup {c}) IN
         [clusters |-> <<c>> \o rest.clusters, ok |-> rest.ok]

\* the stream is open on a well-formed chain
OnChain == stream.kind \in {"reader", "writer"} /\ WalkChain(fat, first, {}).ok

TheChain == WalkChain(fat, first, {}).clusters

ChainLen == Len(TheChain) * BytesPerCluster

\* the offset on the backend of the byte at logical position p of the chain
LogicalOffset(p) ==
    data_cluster_to_offset(TheChain[(p \div BytesPerCluster) + 1]) + (p % BytesPerCluster)

\* the windows of the chain's clusters concatenated in chain order
ChainBytes(d) == [i \in 1..ChainLen |-> d[LogicalOffset(i - 1)]]

\* what the next one-byte read or write of the stream s does
NextOp(s, overflow_checks) ==
    IF s.kind = "reader" THEN chain_read(fat, disk, s, 1, overflow_checks)
    ELSE chain_write(fat, disk, s, <<0>>, overflow_checks)

\* the logical position the stream s acts on next: ChainLen when it is at EOF
Position(s, overflow_checks) ==
    IF NextOp(s, overflow_checks).ret = 0 THEN ChainLen
    ELSE CHOOSE p \in 0..(ChainLen - 1) : LogicalOffset(p) = NextOp(s, overflow_checks).at

ClusterOfOffset(o) == (o - DataOffset) \div BytesPerCluster

\* the first byte of slot i of the stream
FirstByte(i) == Byte(slots[i], 0)

NoSentinelBefore(i) == \A j \in 1..(i - 1) : FirstByte(j) # 0

\* the slot the iteration has to end at: the first with first byte 0x00, or the end
FirstSentinel ==
    IF \E i \in 1..Len(slots) : FirstByte(i) = 0
    THEN CHOOSE i \in 1..Len(slots) : FirstByte(i) = 0 /\ NoSentinelBefore(i)
    ELSE Len(slots) + 1

EmittedSlots == [k \in 1..Len(emitted) |-> emitted[k].slot]

IsFragment(i) == from_bits_truncate(Byte(slots[i], 11)) = LongName

\* slot i holds a short entry in use that loads
IsShortEntry(i) ==
    /\ ~IsFragment(i)
    /\ FirstByte(i) # 0 /\ FirstByte(i) # 229
    /\ DirEntry_load(slots[i]).kind = "Regular"

\* slots i .. i+n-1 are a well-formed long-name run of n fragments and slot i+n is the
\* short entry with the checksum of the run
RunAt(i, n) ==
    /\ i + n <= Len(slots)
    /\ \A k \in 0..(n - 1) :
         /\ IsFragment(i + k)
         /\ LongNameDirEntry_load(slots[i + k]).kind = "LongName"
         /\ LongNameDirEntry_load(slots[i + k]).ordinal = n - k
         /\ LongNameDirEntry_load(slots[i + k]).is_last = (k = 0)
         /\ LongNameDirEntry_load(slots[i + k]).checksum = checksum(Slice(slots[i + n], 0, 11))
    /\ IsShortEntry(i + n)

\* the code units of the run in the order of the ordinals 1..n, the padding and one
\* terminator of the is-last fragment removed
RECURSIVE RunUnits(_, _, _)
RunUnits(i, n, ordinal) ==
    IF ordinal > n THEN <<>>
    ELSE LET units == lfn_units(slots[i + n - ordinal])
             trimmed == trim_padding(units)
         IN  IF ordinal < n THEN units \o RunUnits(i, n, ordinal + 1)
             ELSE IF trimmed # <<>> /\ trimmed[Len(trimmed)] = 0
                  THEN SubSeq(trimmed, 1, Len(trimmed) - 1)
                  ELSE trimmed

\* the messages of the long-name rules
LongNameViolations ==
    {"checksum doesn't match previous", "last ordinal was 1, but found more entries",
     "expected ordinal", "last ordinal is not 1",
     "given checksum doesn't match previous checksum", "long filename too long"}

(***************************************************************************)
(* C1..C10                                                                 *)
(***************************************************************************)

\* C1: the reads of a reader opened on a well-formed chain return the bytes of the
\* windows of c1..ck in chain order, each once; one read returns bytes of one cluster
\* only; a read returns 0 bytes only when all of them have been returned, and from then
\* on every read returns 0 bytes.
C1_ReaderYieldsChain ==
    (OnChain /\ stream.kind = "reader" /\ rd_out.whole) =>
        /\ Len(rd_out.bytes) <= ChainLen
        /\ rd_out.bytes = SubSeq(ChainBytes(disk), 1, Len(rd_out.bytes))
        /\ last_op.op = "read" =>
             /\ last_op.ret <= last_op.arg
             /\ last_op.ret > 0 =>
                  ClusterOfOffset(last_op.at) = ClusterOfOffset(last_op.at + last_op.ret - 1)
             /\ (last_op.arg > 0 /\ last_op.ret = 0) => Len(rd_out.bytes) = ChainLen
        /\ Len(rd_out.bytes) = ChainLen =>
             /\ stream.len = 0 /\ ~stream.next_cluster.some
             /\ \A overflow_checks \in BOOLEAN : \A buf_len \in 0..MaxBuf :
                  chain_read(fat, disk, stream, buf_len, overflow_checks).ret = 0

\* C1 witness: a chain of more than one cluster read to its end, and one more read that
\* returned 0 bytes
C1_Witness ==
    /\ OnChain /\ stream.kind = "reader" /\ rd_out.whole
    /\ Len(TheChain) >= 2
    /\ rd_out.bytes = ChainBytes(disk)
    /\ last_op.op = "read" /\ last_op.arg > 0 /\ last_op.ret = 0

\* C5: the iterator returns None at the first slot whose first byte is 0x00 and emits
\* no entry built from that slot or a later one; "FILE    TXT" followed by 32 zero
\* bytes yields exactly one entry.
C5_StopsAtSentinel ==
    /\ \A k \in 1..Len(emitted) : emitted[k].slot < FirstSentinel
    /\ dir_iter.status = "done" => dir_iter.pos - 1 = Min(FirstSentinel, Len(slots))
    /\ (slots = <<FileTxt, Sentinel>> /\ dir_iter.status = "done") => EmittedSlots = <<1>>

\* C6: no emitted entry is built from a slot whose first byte is 0xE5; the stream
\* [deleted, valid, sentinel] yields exactly one entry, the second slot.
C6_DeletedSkipped ==
    /\ \A k \in 1..Len(emitted) : FirstByte(emitted[k].slot) # 229
    /\ (slots = <<Deleted, FileTxt, Sentinel>> /\ dir_iter.status = "done")
         => EmittedSlots = <<2>>

\* C7: once the iterator is past the short entry of a well-formed long-name run, it
\* has emitted exactly one entry for it, and its long name is the code units of the
\* fragments in the order of the ordinals 1..N, trimmed and decoded as UTF-16;
\* "hello-world.txt" in two fragments gives "hello-world.txt".
C7_LongNameAssembled ==
    /\ \A i \in 1..Len(slots) : \A n \in 1..20 :
         (RunAt(i, n) /\ NoSentinelBefore(i) /\ dir_iter.pos > i + n) =>
             /\ Cardinality({k \in 1..Len(emitted) : emitted[k].slot = i + n}) = 1
             /\ \A k \in 1..Len(emitted) :
                  emitted[k].slot = i + n =>
                      emitted[k].entry.long_name = {decode_utf16(RunUnits(i, n, 1))}
    /\ (slots = <<Lfn2Last, Lfn1, FileTxt>> /\ dir_iter.pos > 3) =>
         /\ Len(emitted) = 1
         /\ emitted[1].entry.long_name = {HelloHead \o <<120, 116>>}

\* C8: every error of a long-name rule leaves the buffer empty, and when the iteration
\* is over every short entry in use that stands before the sentinel and does not
\* directly follow a fragment has been emitted.
C8_RecoversFromBadRuns ==
    /\ \A k \in 1..Len(dir_iter.printed) :
         dir_iter.printed[k].what \in LongNameViolations
             => dir_iter.printed[k].buf = EmptyBuf
    /\ dir_iter.status = "done" =>
         \A i \in 1..Len(slots) :
             (IsShortEntry(i) /\ NoSentinelBefore(i) /\ (i = 1 \/ ~IsFragment(i - 1)))
                 => \E k \in 1..Len(emitted) : emitted[k].slot = i

\* C9: the bytes written to a writer opened on a well-formed chain fill the windows of
\* c1..ck in chain order; a write of a non-empty buffer returns 0 only when all
\* k * bytes_per_cluster bytes of the chain have been accepted.
C9_WriterFillsChain ==
    (OnChain /\ stream.kind = "writer" /\ wr_in.whole) =>
        /\ Len(wr_in.bytes) <= ChainLen
        /\ wr_in.bytes = SubSeq(ChainBytes(disk), 1, Len(wr_in.bytes))
        /\ (last_op.op = "write" /\ last_op.arg > 0 /\ last_op.ret = 0)
             => Len(wr_in.bytes) = ChainLen

\* C10: skip(n) on a stream with r bytes left in its chain returns min(n, r), and the
\* next read or write acts min(n, r) bytes further along the chain: at EOF when n >= r.
C10_SkipAdvances ==
    (OnChain /\ last_op.op = "skip") =>
        \A overflow_checks \in BOOLEAN :
        LET r == ChainLen - Position(last_op.pre, overflow_checks) IN
        /\ last_op.ret = Min(last_op.arg, r)
        /\ Position(stream, overflow_checks) = Position(last_op.pre, overflow_checks) + Min(last_op.arg, r)

\* the end of the reserved range and the defective marker of each variant as the FAT
\* specification gives them
DocReservedEnd(ft) ==
    CASE ft = "Fat12" -> U32Hex(0, 4086)          \* 0xFF6
      [] ft = "Fat16" -> U32Hex(0, 65526)         \* 0xFFF6
      [] ft = "Fat32" -> U32Hex(4095, 65526)      \* 0x0FFFFFF6

DocDefective(ft) ==
    CASE ft = "Fat12" -> U32Hex(0, 4087)          \* 0xFF7
      [] ft = "Fat16" -> U32Hex(0, 65527)         \* 0xFFF7
      [] ft = "Fat32" -> U32Hex(4095, 65527)      \* 0x0FFFFFF7

DocEndsChain(ft, e) == e = DocEofCluster(ft) \/ Contains(DocReservedEof(ft), e)

\* C2: with the markers and ranges of the FAT specification, get_next_cluster(c) is
\* None when the entry of c is the EOF marker or in the reserved-EOF band, Some(e) when
\* the entry e is a valid data cluster, FreeCluster for c = 0, ReservedCluster for c in
\* the reserved range (max+1)..=end, DefectiveCluster for c the defective marker,
\* InvalidEntry for any other entry; Some(e) only with e in 2..=max.
C2_GetNextContract ==
    next_result # Idle =>
        LET e == get_entry(fat, cluster)
            ft == fat.fat_type
        IN
        /\ cluster = U32(0) => next_result = Res("FreeCluster", NoVal)
        /\ Contains(Range(U32Succ(fat.max), DocReservedEnd(ft)), cluster)
             => next_result = Res("ReservedCluster", cluster)
        /\ cluster = DocDefective(ft) => next_result.kind = "DefectiveCluster"
        /\ HoldsEntry(fat, cluster) /\ DocEndsChain(ft, e) => next_result.kind = "None"
        /\ HoldsEntry(fat, cluster) /\ Contains(valid_clusters(fat), e) => next_result = Res("Some", e)
        /\ HoldsEntry(fat, cluster) /\ ~DocEndsChain(ft, e) /\ ~Contains(valid_clusters(fat), e)
             => next_result = Res("InvalidEntry", e)
        /\ next_result.kind = "Some"
             => U32Le(U32(2), next_result.val) /\ U32Le(next_result.val, fat.max)

\* C3: an entry equal to the variant's EOF marker (0xFFF, 0xFFFF, 0x0FFFFFFF) or in its
\* reserved-EOF band (0xFF8..=0xFFE, 0xFFF8..=0xFFFE, 0x0FFFFFF8..=0x0FFFFFFE) ends the
\* chain: get_next_cluster on the cluster holding it returns None.
C3_MarkersEndChain ==
    /\ next_result # Idle
    /\ Contains(valid_clusters(fat), cluster)
    /\ \/ get_entry(fat, cluster) = DocEofCluster(fat.fat_type)
       \/ Contains(DocReservedEof(fat.fat_type), get_entry(fat, cluster))
    => next_result.kind = "None"

\* data_sectors / sectors_per_cluster computed in the integers, for a boot sector whose
\* sectors before the data region fit in its total
DocCountOfClusters(b) ==
    (U32ToNat(total_sectors(b))
       - (b.reserved_sector_count + b.num_fats * U32ToNat(fat_size(b))
          + (32 * b.root_entry_count + b.bytes_per_sector - 1) \div b.bytes_per_sector))
    \div b.sectors_per_cluster

\* C4: a boot sector accepted by Bpb::load, with n = count_of_clusters =
\* data_sectors / sectors_per_cluster, is FAT12 iff n < 4085, FAT16 iff
\* 4085 <= n < 65525 and FAT32 iff n >= 65525.
C4_VariantByClusterCount ==
    bpb_result.kind = "Ok" =>
        LET n == bpb_result.count_of_clusters IN
        /\ bpb_result.fat_type = "Fat12" <=> U32Lt(n, U32(4085))
        /\ bpb_result.fat_type = "Fat16" <=> (U32Le(U32(4085), n) /\ U32Lt(n, U32(65525)))
        /\ bpb_result.fat_type = "Fat32" <=> U32Le(U32(65525), n)
        /\ ~count_of_clusters(boot).ovf => n = U32(DocCountOfClusters(boot))

\* C4 witness: a boot sector of the FAT12/16 shape accepted with exactly 4085 clusters
C4_Witness ==
    /\ bpb_result.kind = "Ok"
    /\ bpb_result.fat_type = "Fat16"
    /\ bpb_result.count_of_clusters = U32(4085)
    /\ boot.fat_size_16 # 0

(***************************************************************************)
(* C11..C20                                                                *)
(***************************************************************************)

\* C11: a stream opened on cluster 0 is built without a failure, on an empty window
\* (length 0), and a reader on it returns 0 bytes from its first read on.
C11_ClusterZeroWindowEmpty ==
    (stream # Closed /\ first = U32(0)) =>
        /\ stream.kind \in {"reader", "writer"}
        /\ stream.len = 0
        /\ (stream.kind = "reader" /\ last_op.op = "read") => last_op.ret = 0

\* the tables f and g hold the same entry for every cluster
SameTable(f, g) ==
    /\ IsLoaded(f) /\ IsLoaded(g) /\ f.max = g.max
    /\ \A c \in DOMAIN f.next_sectors \cup DOMAIN g.next_sectors : get_entry(f, c) = get_entry(g, c)

\* the three bytes of the pair (e0, e1): e0 & 0xFF, ((e0 >> 8) & 0x0F) | ((e1 & 0x0F) << 4),
\* (e1 >> 4) & 0xFF
DocFat12Pack(e0, e1) ==
    <<e0 % 256, ((e0 \div 256) % 16) + 16 * (e1 % 16), (e1 \div 16) % 256>>

\* the entry of cluster c the bytes hold
DocEntryOnDisk(ft, bytes, c) ==
    LET b == ChunkAt(ft, bytes, chunk_of(ft, c)) IN
    CASE ft = "Fat12" -> IF c % 2 = 0 THEN U32((b[1] + 256 * b[2]) % 4096)
                         ELSE U32((b[2] \div 16) + 16 * b[3])
      [] ft = "Fat16" -> U32(b[1] + 256 * b[2])
      [] ft = "Fat32" -> <<b[3] + 256 * b[4], b[1] + 256 * b[2]>>

\* C12: a FAT12 table decoded by Fat::new holds for every cluster 0..=max the entry of
\* the bytes, and write_to_disk succeeds on it and leaves every pair of consecutive
\* entries (e0, e1) packed in its three bytes, so that decoding the bytes written
\* gives the table again; 0x23 0x61 0x45 decodes to 0x123, 0x456.
C12_Fat12RoundTrip ==
    (IsLoaded(fat) /\ fat.fat_type = "Fat12") =>
        /\ wb_result.op = "new" =>
              \A c \in 0..U32ToNat(fat.max) :
                  get_entry(fat, U32(c)) = DocEntryOnDisk("Fat12", fat_bytes, c)
        /\ wb_result.op = "write_to_disk" =>
              /\ wb_result.kind = "Ok"
              /\ \A k \in 0..(U32ToNat(fat.max) \div 2) :
                    (2 * k + 1 <= U32ToNat(fat.max)) =>
                        ChunkAt("Fat12", fat_bytes, k) =
                            DocFat12Pack(get_entry(fat, U32(2 * k))[2],
                                         get_entry(fat, U32(2 * k + 1))[2])
              /\ SameTable(Fat_new("Fat12", fat_bytes, fat.max), fat)

\* C13: a FAT16 or FAT32 table decoded by Fat::new holds for every cluster 0..=max
\* the little-endian entry of the bytes at its index, and write_to_disk succeeds on it
\* and leaves every entry at its index, so that decoding the bytes written gives the
\* table again.
C13_Fat16Fat32RoundTrip ==
    (IsLoaded(fat) /\ fat.fat_type \in {"Fat16", "Fat32"}) =>
        /\ wb_result.op = "new" =>
              \A c \in TableClusters(fat.fat_type, fat.max) :
                  get_entry(fat, U32(c)) = DocEntryOnDisk(fat.fat_type, fat_bytes, c)
        /\ wb_result.op = "write_to_disk" =>
              /\ wb_result.kind = "Ok"
              /\ \A c \in TableClusters(fat.fat_type, fat.max) :
                    DocEntryOnDisk(fat.fat_type, fat_bytes, c) = get_entry(fat, U32(c))
              /\ SameTable(Fat_new(fat.fat_type, fat_bytes, fat.max), fat)

\* the five checks of the common header, in the order of the specification
DocHeaderChecks(b) ==
    <<b.bytes_per_sector \in {512, 1024, 2048, 4096},
      b.sectors_per_cluster \in {1, 2, 4, 8, 16, 32, 64, 128},
      b.reserved_sector_count > 0,
      b.media \in {240} \cup (248..255),
      b.signature_word = <<85, 170>>>>

DocHeaderOk(b) == \A i \in 1..5 : DocHeaderChecks(b)[i]

\* C14: a boot sector of the FAT12/16 shape that passes the checks of its fields and
\* whose geometry gives count_of_clusters < 4085 is accepted as FAT12, whatever type
\* its extension names; a boot sector of the FAT32 shape (fat_size_16 = 0) whose
\* count_of_clusters is below 65525 gets an error. The geometries are those whose
\* sectors before the data region fit in the total.
C14_SmallCountReclassified ==
    (bpb_result # Idle /\ ~count_of_clusters(boot).ovf) =>
        /\ (/\ boot.fat_size_16 # 0
            /\ DocHeaderOk(boot)
            /\ ExtBpb16_load(boot).kind = "Ok"
            /\ DocCountOfClusters(boot) < 4085)
           => (bpb_result.kind = "Ok" /\ bpb_result.fat_type = "Fat12")
        /\ (boot.fat_size_16 = 0 /\ DocCountOfClusters(boot) < 65525)
           => bpb_result.kind = "Err"

\* C14 witness: a boot sector whose extension says "FAT16   " accepted as FAT12
C14_Witness ==
    /\ bpb_result.kind = "Ok"
    /\ bpb_result.fat_type = "Fat12"
    /\ boot.e16_file_sys_type = "FAT16   "
    /\ U32Lt(U32(0), bpb_result.count_of_clusters)

DocHeaderNames ==
    <<"bytes_per_sector", "sectors_per_cluster", "reserved_sector_count", "media",
      "signature_word">>

DocFailedChecks(b) == {i \in 1..5 : ~DocHeaderChecks(b)[i]}

DocFirstFailed(b) == CHOOSE i \in DocFailedChecks(b) : \A j \in DocFailedChecks(b) : i <= j

\* C15: Bpb::load returns an error for every boot sector that fails one of the five
\* checks (bytes/sector, sectors/cluster, reserved-sector-count, media byte, the
\* signature 0x55 0xAA), and when several of them fail the error is the one of the
\* first in this order.
C15_HeaderChecksInOrder ==
    (bpb_result # Idle /\ DocFailedChecks(boot) # {}) =>
        /\ bpb_result.kind = "Err"
        /\ (Cardinality(DocFailedChecks(boot)) > 1 \/ DocFirstFailed(boot) < 5) =>
              bpb_result.err = DocHeaderNames[DocFirstFailed(boot)]

\* C15 witness: a boot sector with a reserved-sector-count of 0 and without the
\* signature, refused for its reserved-sector-count
C15_Witness ==
    /\ bpb_result # Idle
    /\ DocFailedChecks(boot) = {3, 5}
    /\ bpb_result.kind = "Err"
    /\ bpb_result.err = "reserved_sector_count"

\* C16: an accepted boot sector of FAT12 or FAT16 has root_entry_count > 0 and
\* fat_size_16 > 0; an accepted boot sector of FAT32 has fat_size_16 = 0,
\* total_sectors_16 = 0, fat_size_32 > 0 and fs_version = 0.
C16_AcceptedFieldInvariants ==
    bpb_result.kind = "Ok" =>
        /\ bpb_result.fat_type \in {"Fat12", "Fat16"} =>
              (bpb_result.fields.root_entry_count > 0 /\ bpb_result.fields.fat_size_16 > 0)
        /\ bpb_result.fat_type = "Fat32" =>
              /\ bpb_result.fields.fat_size_16 = 0
              /\ bpb_result.fields.total_sectors_16 = 0
              /\ U32Lt(U32(0), bpb_result.fields.e32_fat_size_32)
              /\ bpb_result.fields.e32_fs_ver = 0

RECURSIVE DocTrimSpaces(_)
DocTrimSpaces(bytes) ==
    IF bytes # <<>> /\ bytes[Len(bytes)] = 32 THEN DocTrimSpaces(SubSeq(bytes, 1, Len(bytes) - 1))
    ELSE bytes

\* A-Z, 0-9 and $ % ' - _ @ ~ ` ! ( ) { } ^ # & stay, every other byte becomes '?'
DocNameChar(c) ==
    IF c \in (65..90) \cup (48..57) \cup {36, 37, 39, 45, 95, 64, 126, 96, 33, 40, 41, 123, 125, 94, 35, 38}
    THEN c ELSE 63

\* the 8.3 decoding of the 11 raw bytes of a name
DocName83(raw, attr) ==
    LET stem == DocTrimSpaces(SubSeq(raw, 1, 8))
        ext == DocTrimSpaces(SubSeq(raw, 9, 11))
    IN  (IF HasBit(attr, Hidden) THEN <<46>> ELSE <<>>)
        \o [i \in 1..Len(stem) |-> DocNameChar(stem[i])]
        \o (IF ext # <<>> THEN <<46>> \o [i \in 1..Len(ext) |-> DocNameChar(ext[i])] ELSE <<>>)

RawName == SubSeq(raw_slot, 1, 11)

\* C17: name_string() of a loaded entry without a long name is the 8.3 decoding of its
\* 11 raw bytes: stem and extension right-trimmed of spaces, bytes outside the valid
\* set as '?', the extension after one '.' iff it is not empty, one '.' in front iff
\* Hidden is set; "FILE    TXT" gives "FILE.TXT".
C17_ShortNameString ==
    (entry_view # Idle /\ RawName[1] \notin {0, 229}) =>
        /\ entry_view.name_string.kind = "Ok"
        /\ entry_view.name_string.s = DocName83(RawName, loaded_entry.attr)

\* C18: is_dot() holds iff the entry is a directory and its raw name is '.' and ten
\* spaces, is_dotdot() iff it is a directory and its raw name is '..' and nine spaces,
\* and such an entry is reported as hidden.
C18_DotAndDotDot ==
    entry_view # Idle =>
        /\ entry_view.is_dot <=> (HasBit(loaded_entry.attr, Directory) /\ RawName = <<46>> \o Spaces(10))
        /\ entry_view.is_dotdot <=>
              (HasBit(loaded_entry.attr, Directory) /\ RawName = <<46, 46>> \o Spaces(9))
        /\ (entry_view.is_dot \/ entry_view.is_dotdot) => entry_view.is_hidden

\* C19: every date and time of day in range (1980 <= y <= 2107, m <= 12, d <= 31,
\* h <= 23, min <= 59, s <= 59) is packed by Date::from_day_month_year and
\* Time::from_seconds_minutes_hours, and the accessors of the result give
\* (y, m, d, h, min, s with its low bit cleared).
C19_DateTimeRoundTrip ==
    /\ packed # Idle => (packed.date.kind = "Ok" /\ packed.time.kind = "Ok")
    /\ unpacked # Idle =>
          unpacked = [stamp EXCEPT !.seconds = stamp.seconds - (stamp.seconds % 2)]

\* the chain of the file of the inode, and the bytes of its clusters in chain order
FileChain == WalkChain(fat, inode.first_cluster, {})

FileChainBytes ==
    [i \in 1..(Len(FileChain.clusters) * BytesPerCluster) |->
        disk[data_cluster_to_offset(FileChain.clusters[((i - 1) \div BytesPerCluster) + 1])
             + ((i - 1) % BytesPerCluster)]]

\* C20: a read at offset o with requested size s on a file of declared size f returns
\* at most s bytes, at most f - o of them, none when o > f, and on a well-formed chain
\* they are the bytes at the logical positions o, o + 1, ... of the file: no byte of a
\* position >= f, however long the chain.
C20_SizeCapsReads ==
    (reply # Idle /\ reply.kind = "data") =>
        /\ Len(reply.data) <= reply.size
        /\ reply.offset > inode.size => reply.data = <<>>
        /\ reply.offset <= inode.size => Len(reply.data) <= inode.size - reply.offset
        /\ FileChain.ok =>
              reply.data = SubSeq(FileChainBytes, reply.offset + 1,
                                  reply.offset + Len(reply.data))

\* C20 witness: a read that asks for more than the file has left, on a chain that
\* holds more bytes than the declared size, answered with the bytes up to the size
C20_Witness ==
    /\ reply # Idle /\ reply.kind = "data"
    /\ FileChain.ok
    /\ Len(FileChainBytes) > inode.size
    /\ reply.offset + reply.size > inode.size
    /\ Len(reply.data) > 0
    /\ Len(reply.data) = inode.size - reply.offset

(***************************************************************************)
(* C21..C30                                                                *)
(***************************************************************************)

\* C21: after a successful write of data d at offset o on a file of size f the count
\* reported as written is |d|, and Inode.size and the size field of the entry are both
\* o + |d| when o + |d| > f (also when the gap between the end of the chain and o was
\* filled with zeros) and both f otherwise.
C21_WriteUpdatesSize ==
    (reply # Idle /\ reply.op = "write" /\ reply.kind = "written") =>
        /\ reply.written = reply.size
        /\ inode.size = (IF reply.offset + reply.size > reply.pre_size
                         THEN reply.offset + reply.size ELSE reply.pre_size)
        /\ entry_size = inode.size

\* the offset on the backend of the byte at logical position p of the file of the inode
FileOffset(p) ==
    data_cluster_to_offset(FileChain.clusters[(p \div BytesPerCluster) + 1])
        + (p % BytesPerCluster)

\* C22: a write request at offset o on a file with a well-formed chain leaves every byte
\* of the file at a logical position below o as it was, the bytes of the window of the
\* first cluster among them, whether o lies in the chain or beyond its end.
C22_WriteKeepsBytesBelowOffset ==
    (reply # Idle /\ reply.op = "write" /\ reply.kind \in {"written", "error"} /\ FileChain.ok) =>
        \A p \in 0..(Min(reply.offset, Len(FileChainBytes)) - 1) :
            disk[FileOffset(p)] = reply.pre_disk[FileOffset(p)]

\* C23: FatFs::load, on a boot sector that Bpb::load accepts and a device that holds
\* the FAT region, builds the table of the variant: no assertion of Fat12::new,
\* Fat16::new or Fat32::new fails and no index is out of bounds, for a count of
\* clusters of 4085 or 65525, for an odd count of FAT12, and for a FAT12 region whose
\* length in bytes is not a multiple of 3.
C23_LoadBuildsTable ==
    (bpb_result.kind = "Ok" /\ fat # Idle /\ fat # IoErr /\ fat # Aborted) =>
        /\ IsLoaded(fat)
        /\ fat.fat_type = bpb_result.fat_type
        /\ fat.max = bpb_result.count_of_clusters

\* slot m holds a long-name fragment that loads
IsLoadedFragment(m) == IsFragment(m) /\ LongNameDirEntry_load(slots[m]).kind = "LongName"

\* the is-last fragment that opens the run the short entry of slot i closes: the last
\* one before slot i, 0 when there is none
RunStart(i) ==
    IF \E j \in 1..(i - 1) : IsLoadedFragment(j) /\ LongNameDirEntry_load(slots[j]).is_last
    THEN CHOOSE j \in 1..(i - 1) :
           /\ IsLoadedFragment(j) /\ LongNameDirEntry_load(slots[j]).is_last
           /\ \A m \in (j + 1)..(i - 1) :
                 ~(IsLoadedFragment(m) /\ LongNameDirEntry_load(slots[m]).is_last)
    ELSE 0

\* the code units slot m adds to a name: those of an is-last fragment without the
\* padding and one terminator
DocFragmentUnits(m) ==
    LET units == lfn_units(slots[m])
        trimmed == trim_padding(units)
    IN  IF ~IsLoadedFragment(m) THEN <<>>
        ELSE IF ~LongNameDirEntry_load(slots[m]).is_last THEN units
        ELSE IF trimmed # <<>> /\ trimmed[Len(trimmed)] = 0
             THEN SubSeq(trimmed, 1, Len(trimmed) - 1)
             ELSE trimmed

\* the code units of the fragments of the slots j .. i - 1, the last slot first
RECURSIVE DocUnitsFrom(_, _)
DocUnitsFrom(j, i) ==
    IF i <= j THEN <<>> ELSE DocFragmentUnits(i - 1) \o DocUnitsFrom(j, i - 1)

\* C25: an is-last fragment resets the buffer before it is recorded: the long name of
\* an emitted entry is made of the code units of the fragments from the most recent
\* is-last fragment on, none of an earlier, abandoned run, and each of these fragments
\* carries the checksum of the short entry.
C25_LongNameOfLastRunOnly ==
    \A k \in 1..Len(emitted) :
        emitted[k].entry.long_name # {} =>
            LET i == emitted[k].slot IN
            /\ RunStart(i) > 0
            /\ emitted[k].entry.long_name = {decode_utf16(DocUnitsFrom(RunStart(i), i))}
            /\ \A m \in RunStart(i)..(i - 1) :
                  IsLoadedFragment(m) =>
                      LongNameDirEntry_load(slots[m]).checksum = emitted[k].entry.checksum

\* C26: no call of DirIter::next fails an assertion or underflows, whatever the slots:
\* a fragment that is not is-last with no run in progress, an is-last fragment without
\* terminator and with fewer than 13 units, one of padding only, and one of ordinal 0
\* followed by a fragment are answered with an error line, and the iteration goes on
\* to the sentinel or the end of the slots.
C26_NoAssertionOnFragments ==
    /\ dir_iter.status # "panicked"
    /\ dir_iter.status = "done" => dir_iter.pos - 1 = Min(FirstSentinel, Len(slots))

\* the error values of FatError
FatErrors == {"FreeCluster", "ReservedCluster", "DefectiveCluster", "InvalidEntry"}

\* C24: get_next_cluster(c) returns an error value for every argument c outside the
\* valid data clusters 2..=max, c = 1 and c the EOF marker of the variant among them,
\* and no argument hits the bounds assertion of get_entry.
C24_ErrorOutsideValidClusters ==
    next_result # Idle =>
        /\ next_result.kind # "Panic"
        /\ ~Contains(valid_clusters(fat), cluster) => next_result.kind \in FatErrors

\* C29: Bpb::load computes data_sectors without underflow and without u32 overflow: a
\* boot sector whose total_sectors is below reserved + num_fats * fat_size +
\* root_dir_sectors, or whose num_fats * fat_size is above 2^32 - 1, gets an error,
\* never a panic and never a wrapped count of clusters, so that count_of_clusters *
\* sectors_per_cluster <= total_sectors for every accepted boot sector.
C29_DataSectorsChecked ==
    bpb_result # Idle =>
        /\ bpb_result.kind # "Panic"
        /\ count_of_clusters(boot).ovf => bpb_result.kind = "Err"
        /\ bpb_result.kind = "Ok" =>
              U32Le(U32MulSmall(bpb_result.count_of_clusters, boot.sectors_per_cluster).val,
                    total_sectors(boot))

\* C27: a read at offset o of size s with o + s <= f, on a file of size f whose chain
\* holds f bytes or more, is answered with s bytes, the bytes o .. o + s of the file,
\* also when they lie in more than one cluster.
C27_ReadReturnsRange ==
    (/\ reply # Idle /\ reply.op = "read" /\ reply.kind = "data"
     /\ FileChain.ok /\ inode.size <= Len(FileChainBytes)
     /\ reply.offset + reply.size <= inode.size) =>
        reply.data = SubSeq(FileChainBytes, reply.offset + 1, reply.offset + reply.size)

\* C28: the timestamps of every entry DirEntry::load accepts convert to calendar
\* values: Inode::new, with create_time(), write_time() and last_access_date(),
\* completes for a file or a directory whatever date bits Date::new and time bits
\* Time::new accepted, a day or month of 0, a day past the end of the month, an hour
\* of 24 or more, a minute or second of 60 or more among them.
C28_TimestampsConvert ==
    (entry_view # Idle /\ entry_view.inode.kind # "none"
     /\ (is_file(loaded_entry) \/ is_dir(loaded_entry))) =>
        entry_view.inode.kind \in {"File", "Dir"}

\* C30: reading a cluster chain to its end terminates for every content of the table:
\* a reader that has been opened eventually answers a read into a buffer with room
\* with 0, also when the entries reachable from its first cluster form a cycle
C30_ReadingTerminates ==
    (stream.kind = "reader") ~> (last_op.op = "read" /\ last_op.ret = 0)

====
